---- MODULE Spec2Model ----
(***************************************************************************)
(* Model of the subtitle engine of amir-cli                                *)
(* (src/lib/python/subtitle/processor.py): the translation orchestrator    *)
(* of SubtitleProcessor.run_workflow with its three batched backends, the  *)
(* permissive batch parser, and the cue sanitizer.                         *)
(*                                                                         *)
(* Texts are abstracted to the features the code inspects:                 *)
(*   k = "S"  the source text of the same index (Latin script)             *)
(*   k = "T"  a translation (carries target-script characters when the     *)
(*            target language has a character range)                       *)
(*   k = "L"  Latin text that differs from the source                      *)
(*   k = "E"  empty text,   k = "None"  Python's None                      *)
(*   f        TRUE once fix_persian_text has anchored the text with RLM    *)
(* Times are integer milliseconds (the SRT resolution).                    *)
(***************************************************************************)
EXTENDS Integers, Sequences, FiniteSets, TLC

VARIABLES
    cfg,          \* [lang, strict, llm, models]: constructor / CLI configuration
    file,         \* target SRT on disk: [exists, cues], cues = Seq([start, end, text])
    pc,           \* position of run_workflow for the target language
    run,          \* number of the current run (1 = first, 2 = resumed)
    preV,         \* indices recovered by _ingest_partial_srt at the start of this run
    preText,      \* text of every file cue at the start of this run
    finalResult,  \* final_result of the translate_with_* call
    batches,      \* batch_indices_list
    bi,           \* index of the current batch (1-based)
    attempt,      \* attempt counter of the current batch
    fb,           \* emergency DeepSeek call inside translate_with_gemini
    sent,         \* indices sent to the batch backend during this run
    reqs,         \* requests that carried the items of the batch sent last
    lastEvent,    \* what the last step did (observation for the properties)
    retryCount,   \* retry_count of the post-translation loop
    callState,    \* the translate_with_* call: pending, skipped, returned, raised
    authErr,      \* the backend answered a batch request with an authentication error
    pIn,          \* parser harness: [n, resp]
    pOut,         \* parser harness: [done, len, valid, accepted, stored]
    sIn,          \* sanitizer harness: input entries
    sOut,         \* sanitizer harness: [done, raised, cues] of sanitize_entries(sIn)
    sAgain,       \* sanitizer harness: sanitize_entries applied to the cues of sOut
    sParts,       \* split harness: [done, pos, parts] of one cut of sIn[1]
    rIn,          \* resegmenter harness: transcribed words [word, start, end]
    rOut,         \* resegmenter harness: [done, draft, raised, cues]
    fIn,          \* file harness: [lang, expected, exists, entries] of a target SRT
    fOut,         \* file harness: [ingested, recovered, validated, valid]
    cIn,          \* check harness: [lang, texts] of a target SRT after translation
    cOut,         \* check harness: [done, fixed, indices] of the per-cue check
    xIn,          \* retry harness: [lang, entries, bad, answers, blank] of one round
    xOut,         \* retry harness: [done, requests, entries] after the round
    bIn,          \* batching harness: [indices, lens, maxSize]
    bOut,         \* batching harness: [done, batches] of _create_balanced_batches
    oIn,          \* order harness: [lang, n, recovered, maxSize, answers]
    oOut          \* order harness: [order, result, file] of the batch loop

orchVars == <<cfg, file, pc, run, preV, preText, finalResult, batches, bi,
              attempt, fb, sent, reqs, lastEvent, retryCount, callState, authErr>>
parseVars == <<pIn, pOut>>
sanVars == <<sIn, sOut, sAgain, sParts>>
resegVars == <<rIn, rOut>>
fileVars == <<fIn, fOut>>
checkVars == <<cIn, cOut>>
ctxVars == <<xIn, xOut>>
batchVars == <<bIn, bOut>>
orderVars == <<oIn, oOut>>
harnessVars == <<parseVars, sanVars, resegVars, fileVars, checkVars, ctxVars,
                 batchVars, orderVars>>
vars == <<cfg, file, pc, run, preV, preText, finalResult, batches, bi,
          attempt, fb, sent, reqs, lastEvent, retryCount, callState,
          authErr,
          pIn, pOut, sIn, sOut, sAgain, sParts, rIn, rOut,
          fIn, fOut, cIn, cOut, xIn, xOut, bIn, bOut,
          oIn, oOut>>

----
\* Bounds of the model
NumCues == 2
MaxRuns == 2
MaxParseBatch == 5

\* Program constants
MaxRetries == 10
GeminiModelLimit == 6
GeminiAttempts == 2
GeminiDefaultModels == 4
PostMaxRetries == 3

\* Scaled batch limits (source defaults 20 <= 25 <= 30 <= 40 items, 5000 chars)
BaseBatchSize == 1
BatchCharBudget == 5
LiteLLMBatchSize == BaseBatchSize
DeepSeekBatchSize == BaseBatchSize
FallbackBatchSize == BaseBatchSize
GeminiBatchSize == BaseBatchSize + 1

----
\* Texts
Txt(k, f) == [k |-> k, f |-> f]
NoneV == Txt("None", FALSE)
EmptyT == Txt("E", FALSE)
SrcT == Txt("S", FALSE)

Idx == 1..NumCues

\* The sanitized source timeline written at run_workflow 2235-2239.
SrcStart(i) == (i - 1) * 2000
SrcEnd(i) == (i - 1) * 2000 + 1500
SrcLen(i) == IF i % 2 = 0 THEN 3 ELSE 2

Langs == {"fa", "de"}
\* The codes of LANGUAGE_REGISTRY that carry a char_range
CharRangeLangs ==
    {"zh", "hi", "ar", "bn", "ru", "ja", "ur", "pa", "ko", "fa", "gu", "mr",
     "te", "ta", "th", "el", "uk"}
HasCharRange(lang) == lang \in CharRangeLangs


Min(a, b) == IF a < b THEN a ELSE b
Max(a, b) == IF a > b THEN a ELSE b
Range(s) == {s[j] : j \in 1..Len(s)}

----
\* _parse_translated_batch_output.  A backend response is abstracted to its
\* format and, per item, the kind of text it carries ("M" = absent or blank).
Formats == {"numbered", "jsonlist", "jsondict", "blank"}

Present(slots) == SelectSeq(slots, LAMBDA x : x # "M")

\* int(expected_count * 0.8)
AcceptThreshold(n) == (n * 8) \div 10

\* Step 2 of the parser: numbered lines, None for a missing number, and the
\* whole batch rejected ([]) below the threshold.
NumberedParse(slots, n) ==
    LET ordered == [i \in 1..n |-> IF i <= Len(slots) /\ slots[i] # "M"
                                    THEN slots[i] ELSE "None"]
        valid == Cardinality({i \in 1..n : ordered[i] # "None"})
    IN IF valid >= AcceptThreshold(n) THEN ordered ELSE <<>>

ParseBatchOutput(resp, n) ==
    CASE resp.fmt = "blank" -> <<>>
      [] resp.fmt = "jsonlist" ->
            LET items == Present(resp.slots)
            IN IF items # <<>> THEN SubSeq(items, 1, Min(n, Len(items)))
               ELSE NumberedParse(<<>>, n)
      [] resp.fmt = "jsondict" ->
            LET mapped == Present(resp.slots)
            IN IF mapped # <<>>
               THEN Present(SubSeq(resp.slots, 1, Min(n, Len(resp.slots))))
               ELSE NumberedParse(<<>>, n)
      [] OTHER -> NumberedParse(resp.slots, n)

\* Number of translations the parser took from the response.
ParsedCount(resp, n) ==
    LET out == ParseBatchOutput(resp, n)
    IN Cardinality({i \in 1..Len(out) : out[i] # "None"})

\* The caller's test "len(trans_list) >= len(batch)".
BatchAccepted(resp, n) == Len(ParseBatchOutput(resp, n)) >= n

\* The caller's post-processing of one parsed item: None -> source text; for
\* 'fa' a text without Persian characters -> source text, else fix_persian_text.
ProcessItem(kind, lang) ==
    IF kind = "None" \/ kind = "S" THEN SrcT
    ELSE IF lang = "fa"
         THEN (IF kind = "T" THEN Txt("T", TRUE) ELSE SrcT)
         ELSE Txt(kind, FALSE)

ProcessBatch(resp, n, lang) ==
    LET out == ParseBatchOutput(resp, n)
    IN [j \in 1..Len(out) |-> ProcessItem(out[j], lang)]

----
\* _create_balanced_batches: a new batch starts when the current one holds
\* max_batch_size items or the next text would exceed the character budget.
RECURSIVE BalancedBatches(_, _, _, _, _, _, _)
BalancedBatches(rest, lens, maxSize, maxChars, cur, curChars, acc) ==
    IF rest = <<>>
    THEN (IF cur # <<>> THEN Append(acc, cur) ELSE acc)
    ELSE LET idx == Head(rest)
             textLen == lens[idx]
         IN IF Len(cur) >= maxSize \/ (cur # <<>> /\ curChars + textLen > maxChars)
            THEN BalancedBatches(Tail(rest), lens, maxSize, maxChars,
                                 <<idx>>, textLen, Append(acc, cur))
            ELSE BalancedBatches(Tail(rest), lens, maxSize, maxChars,
                                 Append(cur, idx), curChars + textLen, acc)

CreateBalancedBatches(indices, lens, maxSize) ==
    BalancedBatches(indices, lens, maxSize, BatchCharBudget, <<>>, 0, <<>>)

\* Ascending sequence of the members of a set of indices.
RECURSIVE SortedSeq(_)
SortedSeq(S) ==
    IF S = {} THEN <<>>
    ELSE LET m == CHOOSE x \in S : \A y \in S : x <= y
         IN <<m>> \o SortedSeq(S \ {m})

----
\* Text predicates of the code.
\* has_target_language_chars: False for empty text, True for Latin targets.
HasTargetLanguageChars(t, lang) ==
    /\ t.k \notin {"E", "None"}
    /\ (HasCharRange(lang) => t.k = "T")

\* "text.strip() == src_entry['text'].strip()": strip() leaves the RLM of a fixed text.
EqualsSource(t) == t.k = "S" /\ ~t.f

\* fix_persian_text: returns an empty text as it is, anchors any other with RLM.
FixPersianText(t) == IF t.k = "E" THEN t ELSE Txt(t.k, TRUE)

\* _ingest_partial_srt: the indices whose file entry is reused.  A repetition
\* cluster needs more than max(5, 5%) equal texts, which NumCues < 6 excludes.
IsTranslated(t, lang) ==
    IF lang = "fa" THEN HasTargetLanguageChars(t, lang)
    ELSE ~EqualsSource(t) /\ t.k # "E"

IngestPartialSrt(f, lang) ==
    IF ~f.exists THEN {}
    ELSE {i \in Idx : /\ i <= Len(f.cues)
                       /\ f.cues[i].text.k # "E"
                       /\ IsTranslated(f.cues[i].text, lang)}

\* validate_srt (the size test follows the cue count here; the diversity
\* audit needs more than 50 cues).
ValidateSrt(f, expected, lang) ==
    /\ f.exists
    /\ Len(f.cues) = expected
    /\ \E i \in 1..Len(f.cues) : f.cues[i].text.k # "E"
    /\ (lang = "fa" =>
          100 * Cardinality({i \in 1..Len(f.cues) : f.cues[i].text.k = "T"})
             >= 98 * Len(f.cues))

\* The live save: every source cue with its own times and the best-known text.
LiveSave(fr) ==
    [exists |-> TRUE,
     cues |-> [i \in Idx |-> [start |-> SrcStart(i), end |-> SrcEnd(i),
                              text |-> IF fr[i] = NoneV THEN SrcT ELSE fr[i]]]]

\* final_result[abs_idx] = trans for the items of one batch.
StoreBatch(fr, batch, trans) ==
    [i \in Idx |-> IF \E j \in 1..Len(batch) : batch[j] = i
                   THEN trans[CHOOSE j \in 1..Len(batch) : batch[j] = i]
                   ELSE fr[i]]

\* A write cut short after k cues.
Truncated(f, k) == [exists |-> TRUE, cues |-> SubSeq(f.cues, 1, k)]

----
\* Configurations and the backend's possible answers
Configs ==
    {c \in [lang : Langs, strict : BOOLEAN, llm : {"deepseek", "gemini", "litellm"},
             models : GeminiDefaultModels..GeminiModelLimit] :
        c.llm # "gemini" => c.models = GeminiDefaultModels}

RespKinds(lang) == IF lang = "fa" THEN {"T", "L", "M"} ELSE {"T", "S", "M"}

Responses(n, lang) ==
    {[type |-> "resp", fmt |-> "blank", slots |-> <<>>]}
    \cup {[type |-> "resp", fmt |-> f, slots |-> sl] :
             f \in Formats \ {"blank"}, sl \in [1..n -> RespKinds(lang)]}

Outcomes(n, lang) ==
    {[type |-> "auth", fmt |-> "blank", slots |-> <<>>],
     [type |-> "transient", fmt |-> "blank", slots |-> <<>>]}
    \cup Responses(n, lang)

NoFile == [exists |-> FALSE, cues |-> <<>>]
NoFb == [batches |-> <<>>, k |-> 0, attempt |-> 0, res |-> <<>>]
SrcLens == [i \in Idx |-> SrcLen(i)]

BatchSizeFor(llm) ==
    CASE llm = "gemini" -> GeminiBatchSize
      [] llm = "litellm" -> LiteLLMBatchSize
      [] OTHER -> DeepSeekBatchSize

CurBatch == batches[bi]

\* An attempt counter tested one step late
RetryAllowedOffByOne(a) == a <= MaxRetries

\* "while attempt < max_retries"
RetryAllowed(a) == a < MaxRetries

\* "if attempt >= max_retries: raise"
Exhausted(a) == a >= MaxRetries

\* models[:6] tried with range(2) attempts each
GeminiAttemptLimit(models) == GeminiAttempts * Min(models, GeminiModelLimit)

\* The harness variables before the observed call has been made
NotParsed == [done |-> FALSE, len |-> 0, valid |-> 0, accepted |-> FALSE, stored |-> 0]
NotSanitized == [done |-> FALSE, raised |-> FALSE, cues |-> <<>>]
NotSplit == [done |-> FALSE, pos |-> 0, parts |-> <<>>]
NotResegmented == [done |-> FALSE, draft |-> <<>>, raised |-> FALSE, cues |-> <<>>]

ParseIdle ==
    /\ pIn = [n |-> 0, resp |-> [type |-> "resp", fmt |-> "blank", slots |-> <<>>]]
    /\ pOut = NotParsed

SanIdle ==
    /\ sIn = <<>>
    /\ sOut = NotSanitized
    /\ sAgain = NotSanitized
    /\ sParts = NotSplit

ResegIdle ==
    /\ rIn = <<>>
    /\ rOut = NotResegmented

NotRead == [ingested |-> FALSE, recovered |-> {}, validated |-> FALSE, valid |-> FALSE]

FileIdle ==
    /\ fIn = [lang |-> "fa", expected |-> 0, exists |-> FALSE, entries |-> <<>>]
    /\ fOut = NotRead

NotChecked == [done |-> FALSE, fixed |-> <<>>, indices |-> {}]

CheckIdle ==
    /\ cIn = [lang |-> "fa", texts |-> <<>>]
    /\ cOut = NotChecked

NotRetried == [done |-> FALSE, requests |-> <<>>, entries |-> <<>>]

CtxIdle ==
    /\ xIn = [lang |-> "fa", entries |-> <<>>, bad |-> {}, answers |-> <<>>, blank |-> 0]
    /\ xOut = NotRetried

NotBatched == [done |-> FALSE, batches |-> <<>>]

BatchIdle ==
    /\ bIn = [indices |-> <<>>, lens |-> <<>>, maxSize |-> 0]
    /\ bOut = NotBatched

OrderIdle ==
    /\ oIn = [lang |-> "fa", n |-> 0, recovered |-> {}, maxSize |-> 0, answers |-> <<>>]
    /\ oOut = [order |-> <<>>, result |-> <<>>, file |-> <<>>]

HarnessIdle ==
    /\ ParseIdle /\ SanIdle /\ ResegIdle /\ FileIdle /\ CheckIdle /\ CtxIdle
    /\ BatchIdle
    /\ OrderIdle

Init ==
    /\ cfg \in Configs
    /\ file = NoFile
    /\ pc = "start"
    /\ run = 1
    /\ preV = {}
    /\ preText = <<>>
    /\ finalResult = [i \in Idx |-> NoneV]
    /\ batches = <<>>
    /\ bi = 0
    /\ attempt = 0
    /\ fb = NoFb
    /\ sent = {}
    /\ reqs = 0
    /\ lastEvent = "init"
    /\ retryCount = 0
    /\ callState = "pending"
    /\ authErr = FALSE
    /\ HarnessIdle

\* run_workflow 2244-2283 up to the first batch: the validation shortcut, the
\* recovery, the prefill and the batching of translate_with_*.
Begin ==
    /\ pc = "start"
    /\ preV' = IngestPartialSrt(file, cfg.lang)
    /\ preText' = [i \in 1..Len(file.cues) |-> file.cues[i].text]
    /\ IF file.exists /\ ValidateSrt(file, NumCues, cfg.lang)
       THEN /\ callState' = "skipped"
            /\ pc' = "post"
            /\ lastEvent' = "skip"
            /\ UNCHANGED <<finalResult, batches, bi>>
       ELSE LET rec == IngestPartialSrt(file, cfg.lang)
                fr == [i \in Idx |-> IF i \in rec THEN file.cues[i].text ELSE NoneV]
                todo == SortedSeq(Idx \ rec)
            IN IF todo = <<>>
               THEN /\ finalResult' = fr
                    /\ callState' = "returned"
                    /\ pc' = "post"
                    /\ lastEvent' = "all_recovered"
                    /\ UNCHANGED <<batches, bi>>
               ELSE /\ finalResult' = fr
                    /\ batches' = CreateBalancedBatches(todo, SrcLens, BatchSizeFor(cfg.llm))
                    /\ bi' = 1
                    /\ pc' = "batch"
                    /\ lastEvent' = "dispatch"
                    /\ UNCHANGED callState
    /\ UNCHANGED <<cfg, file, run, attempt, fb, sent, reqs, retryCount, authErr>>
    /\ UNCHANGED harnessVars

\* The exception leaves translate_with_*: run_workflow 2294-2297.
RaiseOut(ev) ==
    /\ callState' = "raised"
    /\ pc' = IF cfg.strict THEN "failed" ELSE "post"
    /\ lastEvent' = ev
    /\ UNCHANGED <<file, finalResult, bi, fb, attempt>>

\* The batch loop moves to the next batch or the call returns final_result.
Advance ==
    /\ attempt' = 0
    /\ fb' = NoFb
    /\ IF bi < Len(batches)
       THEN bi' = bi + 1 /\ pc' = "batch" /\ UNCHANGED callState
       ELSE bi' = bi /\ pc' = "post" /\ callState' = "returned"

RetryLater(ev) ==
    /\ attempt' = attempt + 1
    /\ lastEvent' = ev
    /\ UNCHANGED <<file, finalResult, bi, fb, pc, callState>>

\* Accepted batch: fill final_result, then the live save.
AcceptBatch(o) ==
    LET fr == StoreBatch(finalResult, CurBatch,
                         ProcessBatch(o, Len(CurBatch), cfg.lang))
    IN /\ finalResult' = fr
       /\ file' = LiveSave(fr)
       /\ lastEvent' = "accept"
       /\ Advance

\* One pass of the retry loop of translate_with_deepseek (1348-1428).
DeepSeekAttempt(o) ==
    /\ pc = "batch"
    /\ cfg.llm = "deepseek"
    /\ RetryAllowed(attempt)
    /\ sent' = sent \cup Range(CurBatch)
    /\ reqs' = IF attempt = 0 THEN 1 ELSE reqs + 1
    /\ authErr' = (authErr \/ o.type = "auth")
    /\ IF o.type = "auth" THEN RaiseOut("raise")
       ELSE IF o.type = "resp" /\ BatchAccepted(o, Len(CurBatch)) THEN AcceptBatch(o)
       ELSE IF Exhausted(attempt + 1) THEN RaiseOut("exhausted")
       ELSE RetryLater("retry")
    /\ UNCHANGED <<cfg, run, preV, preText, batches, retryCount>>
    /\ UNCHANGED harnessVars

\* One pass of the retry loop of translate_with_litellm (1680-1737): every
\* exception is retried, and a short answer on the last pass ends the loop
\* with the batch unfilled.
LiteLLMAttempt(o) ==
    /\ pc = "batch"
    /\ cfg.llm = "litellm"
    /\ RetryAllowed(attempt)
    /\ sent' = sent \cup Range(CurBatch)
    /\ reqs' = IF attempt = 0 THEN 1 ELSE reqs + 1
    /\ authErr' = (authErr \/ o.type = "auth")
    /\ IF o.type = "resp" /\ BatchAccepted(o, Len(CurBatch)) THEN AcceptBatch(o)
       ELSE IF o.type # "resp"
            THEN (IF Exhausted(attempt + 1) THEN RaiseOut("exhausted")
                  ELSE RetryLater("retry"))
            ELSE (IF ~RetryAllowed(attempt + 1)
                  THEN /\ lastEvent' = "unfilled"
                       /\ UNCHANGED <<file, finalResult>>
                       /\ Advance
                  ELSE RetryLater("retry"))
    /\ UNCHANGED <<cfg, run, preV, preText, batches, retryCount>>
    /\ UNCHANGED harnessVars

\* The emergency call translate_with_deepseek(batch, ..., 30) of 1612: the
\* batch re-batched by relative position, each part with its own retry loop.
StartFallback ==
    LET n == Len(CurBatch)
        lens == [j \in 1..n |-> SrcLen(CurBatch[j])]
    IN [batches |-> BalancedBatches(SortedSeq(1..n), lens, FallbackBatchSize,
                                    BatchCharBudget, <<>>, 0, <<>>),
        k |-> 1, attempt |-> 0, res |-> [j \in 1..n |-> NoneV]]

\* One request of translate_with_gemini (1552-1603): any exception and any
\* short answer moves on to the next attempt or model.
GeminiAttempt(o) ==
    /\ pc = "batch"
    /\ cfg.llm = "gemini"
    /\ attempt < GeminiAttemptLimit(cfg.models)
    /\ sent' = sent \cup Range(CurBatch)
    /\ reqs' = IF attempt = 0 THEN 1 ELSE reqs + 1
    /\ authErr' = (authErr \/ o.type = "auth")
    /\ IF o.type = "resp" /\ BatchAccepted(o, Len(CurBatch)) THEN AcceptBatch(o)
       ELSE /\ attempt' = attempt + 1
            /\ lastEvent' = "retry"
            /\ UNCHANGED <<file, finalResult, bi, callState>>
            /\ IF attempt + 1 >= GeminiAttemptLimit(cfg.models)
               THEN pc' = "fallback" /\ fb' = StartFallback
               ELSE UNCHANGED <<pc, fb>>
    /\ UNCHANGED <<cfg, run, preV, preText, batches, retryCount>>
    /\ UNCHANGED harnessVars

FbBatch == [j \in 1..Len(fb.batches[fb.k]) |-> CurBatch[fb.batches[fb.k][j]]]

\* One pass of the retry loop of the emergency DeepSeek call; when its last
\* part is accepted the results are copied into final_result (1613-1614),
\* without a save.
FallbackAttempt(o) ==
    /\ pc = "fallback"
    /\ RetryAllowed(fb.attempt)
    /\ sent' = sent \cup Range(FbBatch)
    /\ reqs' = IF fb.attempt = 0 THEN attempt + 1 ELSE reqs + 1
    /\ authErr' = (authErr \/ o.type = "auth")
    /\ IF o.type = "auth" THEN RaiseOut("raise")
       ELSE IF o.type = "resp" /\ BatchAccepted(o, Len(FbBatch))
       THEN LET part == fb.batches[fb.k]
                tr == ProcessBatch(o, Len(part), cfg.lang)
                res == [j \in 1..Len(CurBatch) |->
                          IF \E m \in 1..Len(part) : part[m] = j
                          THEN tr[CHOOSE m \in 1..Len(part) : part[m] = j]
                          ELSE fb.res[j]]
            IN IF fb.k < Len(fb.batches)
               THEN /\ fb' = [fb EXCEPT !.k = fb.k + 1, !.attempt = 0, !.res = res]
                    /\ lastEvent' = "fb_part"
                    /\ UNCHANGED <<file, finalResult, bi, pc, callState, attempt>>
               ELSE /\ finalResult' = StoreBatch(finalResult, CurBatch, res)
                    /\ lastEvent' = "fb_accept"
                    /\ UNCHANGED file
                    /\ Advance
       ELSE IF Exhausted(fb.attempt + 1) THEN RaiseOut("exhausted")
       ELSE /\ fb' = [fb EXCEPT !.attempt = fb.attempt + 1]
            /\ lastEvent' = "retry"
            /\ UNCHANGED <<file, finalResult, bi, pc, callState, attempt>>
    /\ UNCHANGED <<cfg, run, preV, preText, batches, retryCount>>
    /\ UNCHANGED harnessVars

----
\* The post-translation loop of run_workflow (2300-2495)
FixAll(f) ==
    [exists |-> f.exists,
     cues |-> [i \in 1..Len(f.cues) |->
                 [f.cues[i] EXCEPT !.text = FixPersianText(f.cues[i].text)]]]

\* The per-cue check of 2333-2356 on the fixed entries ("L" carries no
\* parenthesized term).
Untranslated(t, lang) ==
    \/ t.k = "E"
    \/ (HasCharRange(lang) /\ t.k # "T")
    \/ (~HasCharRange(lang) /\ EqualsSource(t))

UntranslatedIndices(f, lang) ==
    {i \in 1..Len(f.cues) : Untranslated(f.cues[i].text, lang)}

\* translate_single_with_context: None on any exception, else the answer,
\* passed through fix_persian_text for 'fa'.
CtxKinds(lang) == IF lang = "fa" THEN {"T", "L", "None"} ELSE {"T", "S", "None"}
CtxText(kind, lang) ==
    IF kind = "S" THEN SrcT ELSE Txt(kind, lang = "fa")

\* 2455-2457: only a non-blank retried translation replaces the text.
Splice(f, answers, lang) ==
    [exists |-> TRUE,
     cues |-> [i \in 1..Len(f.cues) |->
                 IF i \in DOMAIN answers /\ answers[i] # "None"
                 THEN [f.cues[i] EXCEPT !.text = CtxText(answers[i], lang)]
                 ELSE f.cues[i]]]

\* The locals of the finished translate_with_* call go out of scope.
CallLocalsDropped ==
    /\ finalResult' = [i \in Idx |-> NoneV]
    /\ batches' = <<>>
    /\ bi' = 0
    /\ attempt' = 0
    /\ fb' = NoFb
    /\ reqs' = 0

\* The memory of a stopped process is gone; the files stay.
ProcessGone ==
    /\ CallLocalsDropped
    /\ preV' = {}
    /\ preText' = <<>>
    /\ sent' = {}
    /\ retryCount' = 0
    /\ callState' = "pending"
    /\ authErr' = FALSE

\* One pass of "while retry_count < max_retries" for the target language.
PostRound(ans, answers) ==
    /\ pc = "post"
    /\ retryCount < PostMaxRetries
    /\ IF ~file.exists
       THEN /\ pc' = "final"
            /\ lastEvent' = "post_nofile"
            /\ UNCHANGED <<file, retryCount, sent>>
       ELSE LET fixed == FixAll(file)
                bad == UntranslatedIndices(fixed, cfg.lang)
            IN IF bad = {}
               THEN /\ file' = fixed
                    /\ pc' = "final"
                    /\ lastEvent' = "post_clean"
                    /\ UNCHANGED <<retryCount, sent>>
               ELSE IF ans = "retry"
               THEN /\ DOMAIN answers = bad
                    /\ file' = Splice(fixed, answers, cfg.lang)
                    /\ retryCount' = retryCount + 1
                    /\ sent' = sent \cup bad
                    /\ pc' = IF retryCount + 1 >= PostMaxRetries THEN "final" ELSE "post"
                    /\ lastEvent' = "ctx_retry"
               ELSE /\ file' = fixed
                    /\ pc' = IF ans = "proceed" THEN "final" ELSE "done"
                    /\ lastEvent' = "post_declined"
                    /\ UNCHANGED <<retryCount, sent>>
    /\ CallLocalsDropped
    /\ UNCHANGED <<cfg, run, preV, preText, callState, authErr>>
    /\ UNCHANGED harnessVars

\* "Final Save" of 2499-2509 (source_lang == 'en'): result[tgt] is set only
\* when the translation call returned or the existing file validated.
FinalSave ==
    /\ pc = "final"
    /\ file' = IF callState \in {"skipped", "returned"} /\ file.exists
               THEN FixAll(file) ELSE file
    /\ pc' = "done"
    /\ lastEvent' = IF callState \in {"skipped", "returned"} /\ file.exists
                    THEN "final" ELSE "final_nowrite"
    /\ CallLocalsDropped
    /\ UNCHANGED <<cfg, run, preV, preText, sent, retryCount, callState, authErr>>
    /\ UNCHANGED harnessVars

Running == pc \in {"start", "batch", "fallback", "post", "final"}

\* The process is stopped between two steps.
Interrupt ==
    /\ Running
    /\ pc' = "interrupted"
    /\ lastEvent' = "interrupt"
    /\ ProcessGone
    /\ UNCHANGED <<cfg, file, run>>
    /\ UNCHANGED harnessVars

\* The process is stopped inside the live save of an accepted batch:
\* open(output_srt, 'w') has truncated the file and k cues are written.
CrashInLiveSave(o, k) ==
    /\ pc = "batch"
    /\ IF cfg.llm = "gemini" THEN attempt < GeminiAttemptLimit(cfg.models)
       ELSE RetryAllowed(attempt)
    /\ o.type = "resp"
    /\ BatchAccepted(o, Len(CurBatch))
    /\ k < NumCues
    /\ file' = Truncated(LiveSave(StoreBatch(finalResult, CurBatch,
                              ProcessBatch(o, Len(CurBatch), cfg.lang))), k)
    /\ pc' = "interrupted"
    /\ lastEvent' = "crash_save"
    /\ ProcessGone
    /\ UNCHANGED <<cfg, run>>
    /\ UNCHANGED harnessVars

\* The process is stopped inside the rewrite of 2321-2323 or 2507-2509.
CrashInPostSave(k) ==
    /\ pc \in {"post", "final"}
    /\ file.exists
    /\ pc = "final" => callState \in {"skipped", "returned"}
    /\ k < Len(file.cues)
    /\ file' = Truncated(FixAll(file), k)
    /\ pc' = "interrupted"
    /\ lastEvent' = "crash_save"
    /\ ProcessGone
    /\ UNCHANGED <<cfg, run>>
    /\ UNCHANGED harnessVars

\* The user starts run_workflow again on the same files.
Restart ==
    /\ pc \in {"interrupted", "done", "failed"}
    /\ run < MaxRuns
    /\ run' = run + 1
    /\ pc' = "start"
    /\ lastEvent' = "restart"
    /\ ProcessGone
    /\ UNCHANGED <<cfg, file>>
    /\ UNCHANGED harnessVars

PostBad ==
    IF pc = "post" /\ file.exists THEN UntranslatedIndices(FixAll(file), cfg.lang) ELSE {}
CurLen == IF pc \in {"batch", "fallback"} THEN Len(CurBatch) ELSE 0
FbLen == IF pc = "fallback" THEN Len(FbBatch) ELSE 0

Next ==
    \/ Begin
    \/ \E o \in Outcomes(CurLen, cfg.lang) : DeepSeekAttempt(o)
    \/ \E o \in Outcomes(CurLen, cfg.lang) : LiteLLMAttempt(o)
    \/ \E o \in Outcomes(CurLen, cfg.lang) : GeminiAttempt(o)
    \/ \E o \in Outcomes(FbLen, cfg.lang) : FallbackAttempt(o)
    \/ \E ans \in {"retry", "proceed", "abort"} :
          \E answers \in [PostBad -> CtxKinds(cfg.lang)] :
             PostRound(ans, answers)
    \/ FinalSave
    \/ Interrupt
    \/ \E o \in Responses(CurLen, cfg.lang), k \in 0..NumCues : CrashInLiveSave(o, k)
    \/ \E k \in 0..NumCues : CrashInPostSave(k)
    \/ Restart

Spec == Init /\ [][Next]_vars

----
\* Properties of the translation orchestrator

TimelineLocked(f) ==
    /\ Len(f.cues) = NumCues
    /\ \A i \in Idx : f.cues[i].start = SrcStart(i) /\ f.cues[i].end = SrcEnd(i)

FullFile(f) == f.exists /\ Len(f.cues) = NumCues

\* The steps that end with a completed write of the target file.
WriteEvents == {"accept", "post_clean", "ctx_retry", "post_declined", "final"}

\* C1: every version of the target file that the orchestrator has written
\* has the cue count of the source timeline and, cue by cue, its start and end.
C1_MasterTimelineLock ==
    (lastEvent \in WriteEvents /\ file.exists) => TimelineLocked(file)

\* The resume situation of C2: a complete target file whose entries outside
\* the recovered set V are copies of the source text.
ResumePre ==
    /\ Len(preText) = NumCues
    /\ preV # {}
    /\ \A i \in Idx \ preV : preText[i] = SrcT

\* C2: a run resumed on such a file that ends normally has sent exactly the
\* indices outside V to the backend and has left the text of every index of V
\* as it was before the run.
C2_ResumeCorrectness ==
    (pc = "done" /\ callState \in {"returned", "skipped"} /\ ResumePre)
        => /\ sent = Idx \ preV
           /\ \A i \in preV : file.cues[i].text = preText[i]

\* C4: a batch that failed on every allowed attempt ends the run with an
\* error in strict mode; in lenient mode the run goes on and the target
\* timeline holds the source text in every slot of that batch.
C4_ExhaustionOutcome ==
    /\ (lastEvent = "exhausted" /\ cfg.strict) => pc = "failed"
    /\ (lastEvent = "unfilled" /\ cfg.strict) => pc = "failed"
    /\ (lastEvent = "exhausted" /\ ~cfg.strict) =>
           /\ pc # "failed"
           /\ FullFile(file)
           /\ \A i \in Range(CurBatch) : file.cues[i].text = SrcT

\* C5 as stated: no batch is sent to the backend more than 10 times.
C5_AtMostTenRequests == reqs <= MaxRetries

\* C5 amended: at most 10 requests per batch on the DeepSeek and LiteLLM
\* paths; on the Gemini path at most 2 requests for each of at most 6 models
\* and then at most 10 requests of the emergency DeepSeek call for each part
\* of the batch.
C5_BoundedRetry ==
    /\ cfg.llm # "gemini" => reqs <= 10
    /\ cfg.llm = "gemini" => /\ attempt <= 12
                             /\ fb.attempt <= 10
                             /\ reqs <= 22

C5_Witness == cfg.llm = "litellm" /\ reqs = 10 /\ lastEvent = "unfilled"

\* C6: once the backend has answered a batch with an authentication error
\* the translation call has ended with that error (nothing is sent after it).
C6_AuthFatal == authErr => callState = "raised"

\* C7: after every accepted batch, the one completed by the fallback backend
\* included, the target file holds the best-known text of every index.
C7_IncrementalPersistence ==
    lastEvent \in {"accept", "fb_accept"} => file = LiveSave(finalResult)

\* C8: an interruption that finds a complete target file on disk leaves a
\* target file with the source's cue count.
C8_InterruptionSafety ==
    [][(FullFile(file) /\ pc' = "interrupted") => FullFile(file')]_vars

\* The translate_with_* call has just returned final_result to run_workflow
JustReturned ==
    /\ callState = "returned"
    /\ lastEvent \in {"accept", "fb_accept", "unfilled", "all_recovered"}

\* C29: the list that a translate_with_* call returns has a text (recovered,
\* accepted or source) at every index; no slot is None.
C29_CompleteResult ==
    JustReturned => \A i \in Idx : finalResult[i] # NoneV

\* C30: when a translate_with_* call returns, the target file on disk has
\* one cue per source cue and the text of every cue is the entry of the
\* returned list at its index.
C30_FileMatchesResult ==
    JustReturned =>
        /\ file.exists
        /\ Len(file.cues) = NumCues
        /\ \A i \in Idx : file.cues[i].text = finalResult[i]

----
\* The batch parser and its caller's acceptance test, applied to every
\* response shape for batches of 1..MaxParseBatch items.

\* The state of an orchestrator that has not been started.
OrchIdle ==
    /\ cfg = [lang |-> "fa", strict |-> TRUE, llm |-> "deepseek",
              models |-> GeminiDefaultModels]
    /\ file = NoFile
    /\ pc = "idle"
    /\ run = 1
    /\ preV = {}
    /\ preText = <<>>
    /\ finalResult = [i \in Idx |-> NoneV]
    /\ batches = <<>>
    /\ bi = 0
    /\ attempt = 0
    /\ fb = NoFb
    /\ sent = {}
    /\ reqs = 0
    /\ lastEvent = "init"
    /\ retryCount = 0
    /\ callState = "pending"
    /\ authErr = FALSE

\* A response to a batch of n items: any format, up to n + 1 numbered items,
\* each carrying a translation ("T") or nothing ("M").
ParseResponses(n) ==
    {[type |-> "resp", fmt |-> "blank", slots |-> <<>>]}
    \cup {[type |-> "resp", fmt |-> f, slots |-> sl] :
             f \in Formats \ {"blank"},
             sl \in UNION {[1..m -> {"T", "M"}] : m \in 0..(n + 1)}}

ParseInputs ==
    UNION {{[n |-> n, resp |-> r] : r \in ParseResponses(n)} : n \in 1..MaxParseBatch}

\* translate_with_deepseek 1361-1383: parse, then store the whole batch
\* (translations and source-text fill-ins) iff len(trans_list) >= len(batch).
ParseOutcome(in) ==
    [done |-> TRUE,
     len |-> Len(ParseBatchOutput(in.resp, in.n)),
     valid |-> ParsedCount(in.resp, in.n),
     accepted |-> BatchAccepted(in.resp, in.n),
     stored |-> IF BatchAccepted(in.resp, in.n) THEN in.n ELSE 0]

ParseInit ==
    /\ OrchIdle
    /\ SanIdle
    /\ ResegIdle
    /\ FileIdle
    /\ CheckIdle
    /\ CtxIdle
    /\ BatchIdle
    /\ OrderIdle
    /\ pIn \in ParseInputs
    /\ pOut = NotParsed

\* The backend's response arrives and is parsed and tested.
ParseStep ==
    /\ ~pOut.done
    /\ pOut' = ParseOutcome(pIn)
    /\ UNCHANGED <<orchVars, sanVars, resegVars, fileVars, checkVars, ctxVars,
                   batchVars, orderVars, pIn>>

ParseNext == ParseStep

ParseSpec == ParseInit /\ [][ParseNext]_vars

\* Number of translations the response carries.
Carried(resp) == Len(Present(resp.slots))

\* C3: a batch is accepted only if the number of parsed translations is at
\* least n or at least 80% of n; a batch that is not accepted stores nothing;
\* a response carrying 3 of 5 requested translations is rejected.
C3_BatchAcceptance ==
    pOut.done =>
        /\ pOut.accepted => (pOut.valid >= pIn.n \/ 10 * pOut.valid >= 8 * pIn.n)
        /\ ~pOut.accepted => pOut.stored = 0
        /\ (pIn.n = 5 /\ Carried(pIn.resp) = 3) => ~pOut.accepted

----
\* sanitize_entries and its helpers.
\* A text is the sequence of its whitespace-separated words.  A word is
\*   [w, n, p, h, nb]: its spelling, its number of characters (a trailing
\*   punctuation mark included), the trailing mark ("" = none), h = "whole",
\*   or "head"/"tail" for the pieces of a word cut by the hard mid-string
\*   split, and nb = TRUE when U+00A0 instead of a space joins it to the next
\*   word.  Source texts carry no bidi marks and single spaces, as parse_srt
\*   and the resegmenter deliver them.
\* An entry is [index, start, end, text, pad], pad = trailing spaces of text.

\* Program constants (characters, words, milliseconds)
MaxChars == 42
OrphanMax == 60
OrphanWords == 2
OrphanChars == 12
MinDuration == 1000
GapTrigger == 300
MaxPadding == 500
MinGap == 50
ScoreBase == 100
SentenceBonus == 80
ClauseBonus == 50
CollocationPenalty == 150

\* Bounds of the sanitizer inputs
MaxSanCues == 2
BaseStart == 3000

Word(w, n, p) == [w |-> w, n |-> n, p |-> p, h |-> "whole", nb |-> FALSE]

\* lib/data/collocations_small.txt, loaded by _load_collocations
Collocations == {<<"new", "york">>}

Abs(x) == IF x < 0 THEN -x ELSE x

RECURSIVE SumLen(_)
SumLen(t) == IF t = <<>> THEN 0 ELSE Head(t).n + SumLen(Tail(t))

\* len(text)
TextLen(t) == IF t = <<>> THEN 0 ELSE SumLen(t) + Len(t) - 1

\* 0-based position of the first character of word j, and of the whitespace
\* that follows word j
WordStart(t, j) == SumLen(SubSeq(t, 1, j - 1)) + (j - 1)
SpacePos(t, j) == WordStart(t, j) + t[j].n

\* format_time cuts a time, given as a fraction num/den of milliseconds,
\* down to whole milliseconds.
FormatTime(num, den) == num \div den

\* "pair in collocations" for two tokens of text.split()
SplitPairKnown(a, b) ==
    /\ a.h = "whole" /\ b.h = "whole"
    /\ a.p = "" /\ b.p = ""
    /\ <<a.w, b.w>> \in Collocations

\* A score without the punctuation bonuses
Score2Plain(t, j) ==
    2 * ScoreBase - Abs(2 * SpacePos(t, j) - TextLen(t))
    - (IF SplitPairKnown(t[j], t[j + 1]) THEN 2 * CollocationPenalty ELSE 0)

\* Twice the score of the whitespace after word j (center = len / 2)
Score2(t, j) ==
    2 * ScoreBase - Abs(2 * SpacePos(t, j) - TextLen(t))
    + (IF t[j].p \in {".", "!", "?"} THEN 2 * SentenceBonus ELSE 0)
    + (IF t[j].p \in {",", ";", ":", "-"} THEN 2 * ClauseBonus ELSE 0)
    - (IF SplitPairKnown(t[j], t[j + 1]) THEN 2 * CollocationPenalty ELSE 0)

\* Whitespace inside text[int(len*0.2) : int(len*0.8)]
Candidates(t) ==
    {j \in 1..(Len(t) - 1) :
        /\ (TextLen(t) * 2) \div 10 <= SpacePos(t, j)
        /\ SpacePos(t, j) < (TextLen(t) * 8) \div 10}

\* _find_best_split_point: position of the best whitespace, -1 for none.
\* The stable descending sort keeps the leftmost of equal scores first.
FindBestSplitPoint(t, max) ==
    IF TextLen(t) <= max \/ Candidates(t) = {} THEN -1
    ELSE LET j == CHOOSE j \in Candidates(t) :
                    \A k \in Candidates(t) :
                        \/ Score2(t, j) > Score2(t, k)
                        \/ (Score2(t, j) = Score2(t, k) /\ j <= k)
         IN SpacePos(t, j)

\* text.rfind(' ', 0, max): U+00A0 is no space
RFindSpace(t, max) ==
    LET S == {j \in 1..(Len(t) - 1) : ~t[j].nb /\ SpacePos(t, j) < max}
    IN IF S = {} THEN -1
       ELSE SpacePos(t, CHOOSE j \in S : \A k \in S : k <= j)

SplitPos(t, max) ==
    LET best == FindBestSplitPoint(t, max)
        space == RFindSpace(t, max)
    IN IF best # -1 THEN best
       ELSE IF space # -1 THEN space
       ELSE TextLen(t) \div 2

\* The word that holds position pos (or is followed by the whitespace at pos)
WordAt(t, pos) == CHOOSE j \in 1..Len(t) :
    /\ pos <= WordStart(t, j) + t[j].n
    /\ \A k \in 1..(j - 1) : pos > WordStart(t, k) + t[k].n

UnJoined(t) == IF t = <<>> THEN t ELSE [t EXCEPT ![Len(t)].nb = FALSE]

\* text[:pos].strip() and text[pos:].strip()
LeftOf(t, pos) ==
    LET j == WordAt(t, pos)
        o == pos - WordStart(t, j)
    IN UnJoined(IF o <= 0 THEN SubSeq(t, 1, j - 1)
                ELSE IF o >= t[j].n THEN SubSeq(t, 1, j)
                ELSE Append(SubSeq(t, 1, j - 1),
                            [w |-> t[j].w, n |-> o, p |-> "", h |-> "head", nb |-> FALSE]))

\* A right part that starts at the word after the one that holds pos
WordsAfter(t, pos) == SubSeq(t, WordAt(t, pos) + 1, Len(t))

RightOf(t, pos) ==
    LET j == WordAt(t, pos)
        o == pos - WordStart(t, j)
    IN IF o <= 0 THEN SubSeq(t, j, Len(t))
       ELSE IF o >= t[j].n THEN SubSeq(t, j + 1, Len(t))
       ELSE <<[t[j] EXCEPT !.n = t[j].n - o, !.h = "tail"]>> \o SubSeq(t, j + 1, Len(t))

\* part1 and part2 of _split_at_best_point for an entry longer than max
SplitParts(e, max) ==
    LET pos == SplitPos(e.text, max)
        len == TextLen(e.text)
        mid == FormatTime(e.start * len + (e.end - e.start) * pos, len)
    IN <<[index |-> e.index, start |-> e.start, end |-> mid,
          text |-> LeftOf(e.text, pos), pad |-> 0],
         [index |-> e.index, start |-> mid, end |-> e.end,
          text |-> RightOf(e.text, pos), pad |-> 0]>>

\* _split_at_best_point: the pieces of an entry, every one within max
RECURSIVE SplitAtBestPoint(_, _)
SplitAtBestPoint(e, max) ==
    IF TextLen(e.text) <= max THEN <<e>>
    ELSE SplitAtBestPoint(SplitParts(e, max)[1], max)
             \o SplitAtBestPoint(SplitParts(e, max)[2], max)

\* Pass 1
RECURSIVE SplitAll(_)
SplitAll(es) ==
    IF es = <<>> THEN <<>>
    ELSE SplitAtBestPoint(Head(es), MaxChars) \o SplitAll(Tail(es))

\* An overlap repair that leaves the start where it was
NoClip(start, lastEnd) == start

\* "if start < last_end: start = last_end"
ClipStart(start, lastEnd) == IF start < lastEnd THEN lastEnd ELSE start

\* A duration repair that leaves a short cue as it is
NoExtend(start, end) == end

\* "if end - start < min_duration: end = start + min_duration"
ExtendEnd(start, end) == IF end - start < MinDuration THEN start + MinDuration ELSE end

\* "if gap > 0.3: padding = min(0.5, gap - 0.05)"; the last entry sees a
\* next start of 1e9 seconds
Padding(es, i, end) ==
    IF i < Len(es)
    THEN (IF es[i + 1].start - end > GapTrigger
          THEN Min(MaxPadding, es[i + 1].start - end - MinGap) ELSE 0)
    ELSE MaxPadding

\* Pass 2: minimum duration, padding, overlap
RECURSIVE FixTimes(_, _, _, _)
FixTimes(es, i, lastEnd, acc) ==
    IF i > Len(es) THEN acc
    ELSE LET e == es[i]
             end1 == ExtendEnd(e.start, e.end)
             end2 == end1 + Padding(es, i, end1)
             start2 == ClipStart(e.start, lastEnd)
             end3 == IF e.start < lastEnd THEN ExtendEnd(start2, end2) ELSE end2
         IN FixTimes(es, i + 1, end3,
                     Append(acc, [e EXCEPT !.start = FormatTime(start2, 1),
                                           !.end = FormatTime(end3, 1)]))

\* Pass 3: consecutive entries with the same text collapse into the first
RECURSIVE Dedupe(_, _)
Dedupe(es, acc) ==
    IF es = <<>> THEN acc
    ELSE IF acc # <<>> /\ Head(es).text = acc[Len(acc)].text
         THEN Dedupe(Tail(es), [acc EXCEPT ![Len(acc)].end = Head(es).end])
         ELSE Dedupe(Tail(es), Append(acc, Head(es)))

\* "len(words) <= 2 or len(ctext) < 12"
IsOrphan(t) == Len(t) <= OrphanWords \/ TextLen(t) < OrphanChars

\* The ceiling applied to each of the two texts instead of their combination
WithinTwiceOrphanMax(n) == n <= 2 * OrphanMax

\* "len(combined_clean) <= orphan_max"
WithinOrphanMax(n) == n <= OrphanMax

\* pair = words[0] of the orphan + first regex word of the next entry
MergePairKnown(a, b) ==
    /\ a.h = "whole" /\ b.h = "whole"
    /\ a.p = ""
    /\ <<a.w, b.w>> \in Collocations

\* Collocation NBSP insertion: re.sub(a + \s+ + b, a + U+00A0 + b)
MarkCollocations(t) ==
    [j \in 1..Len(t) |->
        IF j < Len(t) /\ MergePairKnown(t[j], t[j + 1])
        THEN [t[j] EXCEPT !.nb = TRUE] ELSE t[j]]

\* Pass 4: the while loop over cleaned.  words[0] of an empty text raises
\* IndexError when the next entry has a word.
RECURSIVE OrphanPass(_, _, _)
OrphanPass(cleaned, i, final) ==
    IF i > Len(cleaned) THEN [raised |-> FALSE, cues |-> final]
    ELSE LET cur == cleaned[i]
             t == cur.text
             tryNext == IsOrphan(t) /\ i < Len(cleaned) /\ cleaned[i + 1].text # <<>>
             raises == tryNext /\ t = <<>>
             mergeNext == /\ tryNext /\ t # <<>>
                          /\ MergePairKnown(t[1], cleaned[i + 1].text[1])
                          /\ WithinOrphanMax(TextLen(t) + 1 + TextLen(cleaned[i + 1].text))
             mergePrev == /\ IsOrphan(t) /\ ~mergeNext /\ final # <<>>
                          /\ WithinOrphanMax(TextLen(final[Len(final)].text) + 1 + TextLen(t))
         IN IF raises THEN [raised |-> TRUE, cues |-> <<>>]
            ELSE IF mergeNext
            THEN OrphanPass([cleaned EXCEPT ![i + 1].start = cur.start,
                                            ![i + 1].text = t \o cleaned[i + 1].text],
                            i + 1, final)
            ELSE IF mergePrev
            THEN OrphanPass(cleaned, i + 1,
                            [final EXCEPT ![Len(final)].end = cur.end,
                                          ![Len(final)].text = final[Len(final)].text \o t,
                                          ![Len(final)].pad = IF t = <<>> THEN 1 ELSE 0])
            ELSE OrphanPass(cleaned, i + 1,
                            Append(final, IF t = <<>> THEN cur
                                          ELSE [cur EXCEPT !.text = MarkCollocations(t),
                                                           !.pad = 0]))

\* A last pass that leaves the indices as they are
KeepIndex(es) == es

\* Pass 5
Reindex(es) == [i \in 1..Len(es) |-> [es[i] EXCEPT !.index = i]]

SanSplit(es) == SplitAll(es)
SanTimed(es) == FixTimes(SanSplit(es), 1, 0, <<>>)
SanDeduped(es) == Dedupe(SanTimed(es), <<>>)

sanitize_entries(es) ==
    IF es = <<>> THEN [done |-> TRUE, raised |-> FALSE, cues |-> <<>>]
    ELSE LET r == OrphanPass(SanDeduped(es), 1, <<>>)
         IN [done |-> TRUE, raised |-> r.raised, cues |-> Reindex(r.cues)]

\* len(entry['text'])
CueLen(c) == TextLen(c.text) + c.pad

----
\* The sanitizer applied to draft cue sequences of up to MaxSanCues entries

SanTexts ==
    {<<>>,
     <<Word("hi", 2, "")>>,
     <<Word("new", 3, "")>>,
     <<Word("beta", 19, "")>>,
     <<Word("omega", 50, "")>>,
     <<Word("york", 4, ""), Word("city", 4, ""), Word("hall", 4, "")>>,
     <<Word("alpha", 20, ""), Word("beta", 19, "")>>,
     <<Word("alpha", 20, ""), Word("new", 3, ""), Word("york", 4, ""), Word("beta", 19, "")>>,
     <<Word("alpha", 20, ""), Word("gamma", 25, "."), Word("beta", 19, "")>>}

\* Distance of an entry's start from the previous entry's end, and duration:
\* a start before the previous start, an overlap, a gap below and a gap above
\* the padding trigger; durations below and above min_duration
SanTimings ==
    {[gap |-> -2000, dur |-> 400], [gap |-> -300, dur |-> 400],
     [gap |-> -300, dur |-> 1500], [gap |-> 200, dur |-> 1500],
     [gap |-> 1000, dur |-> 400], [gap |-> 1000, dur |-> 1500]}

SanChoices == {[text |-> t, gap |-> g.gap, dur |-> g.dur] : t \in SanTexts, g \in SanTimings}

RECURSIVE BuildEntries(_, _, _)
BuildEntries(choices, prevEnd, acc) ==
    IF choices = <<>> THEN acc
    ELSE LET c == Head(choices)
             start == Max(0, prevEnd + c.gap)
         IN BuildEntries(Tail(choices), start + c.dur,
                         Append(acc, [index |-> Len(acc) + 1, start |-> start,
                                      end |-> start + c.dur, text |-> c.text, pad |-> 0]))

SanInputs ==
    {BuildEntries(cs, BaseStart, <<>>) :
        cs \in UNION {[1..m -> SanChoices] : m \in 0..MaxSanCues}}

SanInit ==
    /\ OrchIdle
    /\ ParseIdle
    /\ ResegIdle
    /\ FileIdle
    /\ CheckIdle
    /\ CtxIdle
    /\ BatchIdle
    /\ OrderIdle
    /\ sIn \in SanInputs
    /\ sOut = NotSanitized
    /\ sAgain = NotSanitized
    /\ sParts = NotSplit

\* The call sanitize_entries(sIn)
SanStep ==
    /\ ~sOut.done
    /\ sOut' = sanitize_entries(sIn)
    /\ UNCHANGED <<orchVars, parseVars, resegVars, fileVars, checkVars, ctxVars,
                   batchVars, orderVars,
                   sIn, sAgain, sParts>>

\* sanitize_entries called on its own output, as run_workflow does with the
\* source timeline of an earlier run
SanRerun ==
    /\ sOut.done /\ ~sOut.raised
    /\ ~sAgain.done
    /\ sAgain' = sanitize_entries(sOut.cues)
    /\ UNCHANGED <<orchVars, parseVars, resegVars, fileVars, checkVars, ctxVars,
                   batchVars, orderVars, sIn, sOut, sParts>>

SanNext == SanStep \/ SanRerun

SanSpec == SanInit /\ [][SanNext]_vars

\* C9: in the output of sanitize_entries the cues are ordered by start and
\* no cue ends after the start of the cue that follows it.
C9_OrderedNoOverlap ==
    \A i \in 1..(Len(sOut.cues) - 1) :
        /\ sOut.cues[i].start <= sOut.cues[i + 1].start
        /\ sOut.cues[i].end <= sOut.cues[i + 1].start

\* An output of two or more cues for which the duplicate collapse changed an
\* end and the orphan merge changed a start or an end
C9_Witness ==
    /\ sOut.done /\ ~sOut.raised
    /\ Len(sOut.cues) >= 2
    /\ Len(SanDeduped(sIn)) < Len(SanTimed(sIn))
    /\ Len(sOut.cues) < Len(SanDeduped(sIn))

C11_MinDuration ==
    \A i \in 1..Len(sOut.cues) :
        sOut.cues[i].end - sOut.cues[i].start >= MinDuration

\* An output with a fragment of a split cue whose start was clipped to the
\* end of the fragment before it
C11_Witness ==
    /\ sOut.done /\ ~sOut.raised /\ sOut.cues # <<>>
    /\ Len(SanSplit(sIn)) > Len(sIn)
    /\ \E i \in 1..Len(SanSplit(sIn)) :
          SanTimed(sIn)[i].start > SanSplit(sIn)[i].start

\* C12: sanitize_entries applied to its own output returns the same cues.
C12_Idempotent ==
    sAgain.done => (~sAgain.raised /\ sAgain.cues = sOut.cues)

\* C24: the cues returned by sanitize_entries carry the indices 1..N in
\* output order, N being the number of returned cues.
C24_SanIndices ==
    \A i \in 1..Len(sOut.cues) : sOut.cues[i].index = i

\* An output for which an entry was split, a duplicate was dropped and an
\* orphan was merged, so that cues no longer sit at their input position
C24_Witness ==
    /\ sOut.done /\ ~sOut.raised
    /\ Len(sOut.cues) >= 2
    /\ Len(SanSplit(sIn)) > Len(sIn)
    /\ Len(SanDeduped(sIn)) < Len(SanTimed(sIn))
    /\ Len(sOut.cues) < Len(SanDeduped(sIn))
    /\ \E i \in 1..Len(sOut.cues) :
          \A j \in 1..Len(sIn) : sIn[j].index = i => sIn[j].text # sOut.cues[i].text

\* C25: sanitize_entries returns a cue sequence for every input and raises
\* no error, and a text without whitespace that is longer than max_chars is
\* cut into fragments of at most max_chars characters each.
C25_NeverRaises ==
    sOut.done =>
        /\ ~sOut.raised
        /\ \A i \in 1..Len(SanSplit(sIn)) : TextLen(SanSplit(sIn)[i].text) <= MaxChars

----
\* One cut of _split_at_best_point, and sanitize_entries, applied to a single
\* draft cue

\* Bound of the generated texts
MaxSplitWords == 4

NbWord(w, n) == [Word(w, n, "") EXCEPT !.nb = TRUE]

SplitWords ==
    {Word("hi", 2, ""), Word("new", 3, ""), Word("york", 4, ""),
     Word("omega", 34, ""), Word("sigma", 50, ""), Word("alpha", 20, ","),
     NbWord("pi", 2)}

\* Texts of 90 characters whose 40th character is a comma
CommaLefts ==
    {<<Word("kappa", 40, ",")>>,
     <<Word("alpha", 20, ""), Word("beta", 19, ",")>>,
     <<Word("hi", 2, ""), Word("rho", 37, ",")>>,
     <<Word("delta", 9, ""), Word("delta", 9, ""), Word("delta", 9, ""),
       Word("zeta", 10, ",")>>}

CommaRights ==
    {<<Word("tau", 49, "")>>,
     <<Word("gamma", 24, ""), Word("gamma", 24, "")>>,
     <<Word("gamma", 24, ""), Word("eta", 24, "")>>,
     <<Word("city", 4, ""), Word("theta", 44, "")>>,
     <<Word("hi", 2, ""), Word("phi", 46, "")>>,
     <<Word("theta", 44, ""), Word("york", 4, "")>>,
     <<Word("delta", 9, ""), Word("delta", 9, ""), Word("delta", 9, ""),
       Word("delta", 9, ""), Word("delta", 9, "")>>}

CommaTexts == {l \o r : l \in CommaLefts, r \in CommaRights}

\* A stripped text does not end in whitespace
SplitTexts ==
    {t \in UNION {[1..m -> SplitWords] : m \in 1..MaxSplitWords} : ~t[Len(t)].nb}
        \cup CommaTexts

SplitTimings == {[start |-> 0, dur |-> 400], [start |-> 3000, dur |-> 4001]}

SplitInputs ==
    {<<[index |-> 1, start |-> g.start, end |-> g.start + g.dur,
        text |-> t, pad |-> 0]>> : t \in SplitTexts, g \in SplitTimings}

SplitInit ==
    /\ OrchIdle
    /\ ParseIdle
    /\ ResegIdle
    /\ FileIdle
    /\ CheckIdle
    /\ CtxIdle
    /\ BatchIdle
    /\ OrderIdle
    /\ sIn \in SplitInputs
    /\ sOut = NotSanitized
    /\ sAgain = NotSanitized
    /\ sParts = NotSplit

\* The first cut that _split_at_best_point makes in the entry sIn[1]
SplitStep ==
    /\ ~sParts.done
    /\ ~sOut.done
    /\ TextLen(sIn[1].text) > MaxChars
    /\ sParts' = [done |-> TRUE, pos |-> SplitPos(sIn[1].text, MaxChars),
                  parts |-> SplitParts(sIn[1], MaxChars)]
    /\ UNCHANGED <<orchVars, parseVars, resegVars, fileVars, checkVars, ctxVars,
                   batchVars, orderVars, sIn, sOut, sAgain>>

SplitNext == SplitStep \/ SanStep

SplitSpec == SplitInit /\ [][SplitNext]_vars

\* part1 text followed by part2 text, a word that was cut put together again
Glue(l, r) ==
    IF l # <<>> /\ r # <<>> /\ l[Len(l)].h = "head" /\ r[1].h = "tail"
       /\ l[Len(l)].w = r[1].w
    THEN SubSeq(l, 1, Len(l) - 1)
            \o <<[r[1] EXCEPT !.n = l[Len(l)].n + r[1].n, !.h = "whole"]>>
            \o Tail(r)
    ELSE l \o r

\* The text t with the kind of whitespace after its word j left open
SeamBlind(t, j) ==
    IF j \in 1..Len(t) THEN [t EXCEPT ![j].nb = FALSE] ELSE t

\* C13: the two fragments of one cut give back the text of the entry when put
\* together (whitespace at the seam ignored), the first starts where the entry
\* starts, the second ends where the entry ends, and the first ends where the
\* second starts.
C13_SplitCorrect ==
    sParts.done =>
        LET e == sIn[1]
            l == sParts.parts[1]
            r == sParts.parts[2]
            inWord == l.text # <<>> /\ l.text[Len(l.text)].h = "head"
        IN /\ Glue(l.text, r.text)
                = (IF inWord THEN e.text ELSE SeamBlind(e.text, Len(l.text)))
           /\ l.start = e.start
           /\ l.end = r.start
           /\ r.end = e.end

\* A cut in the middle of a word: no whitespace in the middle 60% of the text
\* and no space before max_chars
C13_Witness ==
    /\ sParts.done
    /\ FindBestSplitPoint(sIn[1].text, MaxChars) = -1
    /\ RFindSpace(sIn[1].text, MaxChars) = -1
    /\ Len(sIn[1].text) > 1
    /\ sParts.parts[1].end > sIn[1].start
    /\ sParts.parts[1].end < sIn[1].end

\* The whitespace positions that the step which chose the cut had to choose
\* from: those of the middle 60% of the text, or else the spaces before max
CutCandidates(t, max) ==
    IF Candidates(t) # {} THEN Candidates(t)
    ELSE {k \in 1..(Len(t) - 1) : ~t[k].nb /\ SpacePos(t, k) < max}

\* C14: the whitespace between the two words of a known collocation is not
\* the cut when the text has another candidate whitespace position.
C14_CollocationProtected ==
    sParts.done =>
        LET t == sIn[1].text
            cand == CutCandidates(t, MaxChars)
        IN \A j \in cand :
               (SplitPairKnown(t[j], t[j + 1]) /\ cand \ {j} # {})
                   => sParts.pos # SpacePos(t, j)

HasKnownPair(t) == \E j \in 1..(Len(t) - 1) : SplitPairKnown(t[j], t[j + 1])

\* A text of 90 characters whose 40th character is a comma followed by
\* whitespace, with no known collocation
CommaCase(t) ==
    /\ TextLen(t) = 90
    /\ ~HasKnownPair(t)
    /\ \E j \in 1..(Len(t) - 1) : t[j].p = "," /\ SpacePos(t, j) = 40

\* C15 as stated: a 90-character cue with a comma at character 40 is cut at
\* the whitespace after the comma and the sanitizer returns two cues of at
\* most max_chars characters each.
C15_CommaSplit ==
    /\ (sParts.done /\ CommaCase(sIn[1].text)) => sParts.pos = 40
    /\ (sOut.done /\ CommaCase(sIn[1].text)) =>
           /\ ~sOut.raised
           /\ Len(sOut.cues) = 2
           /\ \A i \in 1..Len(sOut.cues) : CueLen(sOut.cues[i]) <= MaxChars

\* C15 amended: the first cut is at the whitespace after the comma, its left
\* part has 40 characters and its right part 49, more than max_chars; the
\* sanitizer returns at least three cues or a cue longer than max_chars,
\* unless it collapsed two fragments of equal text into one.
C15_CommaSplitFirst ==
    /\ (sParts.done /\ CommaCase(sIn[1].text)) =>
           /\ sParts.pos = 40
           /\ TextLen(sParts.parts[1].text) = 40
           /\ TextLen(sParts.parts[2].text) = 49
    /\ (sOut.done /\ CommaCase(sIn[1].text)) =>
           /\ ~sOut.raised
           /\ \/ Len(sOut.cues) >= 3
              \/ \E i \in 1..Len(sOut.cues) : CueLen(sOut.cues[i]) > MaxChars
              \/ Len(SanDeduped(sIn)) < Len(SanTimed(sIn))

\* The sanitizer's output for a cut comma text whose midpoint is a whitespace
C15_Witness ==
    /\ sParts.done /\ sOut.done
    /\ CommaCase(sIn[1].text)
    /\ \E j \in 1..(Len(sIn[1].text) - 1) : SpacePos(sIn[1].text, j) = 45
    /\ Len(sOut.cues) >= 2
    /\ Len(SanDeduped(sIn)) = Len(SanTimed(sIn))

----
\* sanitize_entries applied to sequences of short cues: the orphan pass

\* Bound of the sequences
MaxOrphanCues == 3

OrphanTexts ==
    {<<Word("hi", 2, "")>>,
     <<Word("new", 3, "")>>,
     <<Word("hi", 2, ""), Word("new", 3, "")>>,
     <<Word("new", 3, ""), Word("hi", 2, "")>>,
     <<Word("york", 4, ""), Word("city", 4, ""), Word("hall", 4, "")>>,
     <<Word("alpha", 20, ""), Word("beta", 19, "")>>,
     <<Word("alpha", 20, ""), Word("zeta", 10, ""), Word("city", 4, "")>>}

OrphanTimings == {[gap |-> 200, dur |-> 400], [gap |-> 1000, dur |-> 1500]}

OrphanChoices ==
    {[text |-> t, gap |-> g.gap, dur |-> g.dur] : t \in OrphanTexts, g \in OrphanTimings}

OrphanInit ==
    /\ OrchIdle
    /\ ParseIdle
    /\ ResegIdle
    /\ FileIdle
    /\ CheckIdle
    /\ CtxIdle
    /\ BatchIdle
    /\ OrderIdle
    /\ \E m \in 1..MaxOrphanCues :
          \E cs \in [1..m -> OrphanChoices] : sIn = BuildEntries(cs, BaseStart, <<>>)
    /\ sOut = NotSanitized
    /\ sAgain = NotSanitized
    /\ sParts = NotSplit

OrphanNext == SanStep

OrphanSpec == OrphanInit /\ [][OrphanNext]_vars

\* The pair at the boundary of two texts: last word of the first, first word
\* of the second
BoundaryPairKnown(t, u) == MergePairKnown(t[Len(t)], u[1])

\* The orphan pass as the claim words it: an orphan goes into the next cue
\* when the boundary pair is a known collocation and the merged text has at
\* most 60 characters, else into the previous cue when that merged text has
\* at most 60 characters, else it stays; the merged cue starts where the
\* earlier cue starts and ends where the later cue ends.
RECURSIVE MergeByBoundary(_, _, _)
MergeByBoundary(cleaned, i, final) ==
    IF i > Len(cleaned) THEN final
    ELSE LET cur == cleaned[i]
             t == cur.text
             toNext == /\ IsOrphan(t) /\ i < Len(cleaned)
                       /\ BoundaryPairKnown(t, cleaned[i + 1].text)
                       /\ TextLen(t) + 1 + TextLen(cleaned[i + 1].text) <= OrphanMax
             toPrev == /\ IsOrphan(t) /\ ~toNext /\ final # <<>>
                       /\ TextLen(final[Len(final)].text) + 1 + TextLen(t) <= OrphanMax
         IN IF toNext
            THEN MergeByBoundary([cleaned EXCEPT ![i + 1].start = cur.start,
                                                 ![i + 1].text = t \o cleaned[i + 1].text],
                                 i + 1, final)
            ELSE IF toPrev
            THEN MergeByBoundary(cleaned, i + 1,
                                 [final EXCEPT ![Len(final)].end = cur.end,
                                               ![Len(final)].text = final[Len(final)].text \o t])
            ELSE MergeByBoundary(cleaned, i + 1, Append(final, cur))

\* A cue without the mark that joins the words of a collocation, and
\* without its index
Plain(c) ==
    [start |-> c.start, end |-> c.end,
     text |-> [j \in 1..Len(c.text) |-> [c.text[j] EXCEPT !.nb = FALSE]]]

\* C27: the cues returned by the Sanitizer are those of that orphan pass,
\* applied to the cues that the duplicate collapse left.
C27_OrphanMerge ==
    (sOut.done /\ ~sOut.raised) =>
        LET want == MergeByBoundary(SanDeduped(sIn), 1, <<>>)
        IN /\ Len(sOut.cues) = Len(want)
           /\ \A i \in 1..Len(want) : Plain(sOut.cues[i]) = Plain(want[i])

----
\* resegment_to_sentences: transcribed words to draft cues, hallucination
\* suppression, sanitize_entries.  Word times are integer microseconds.

BreakLen == 80
FuzzyMinLen == 10
FuzzyMaxDiff == 5
OrphanGuardWords == 3
MicrosPerMilli == 1000

\* Bound of the transcriptions
MaxTokens == 3

SentenceEnders == {".", "?", "!"}

\* "Orphan prevention" of the draft text: U+00A0 before the last word
OrphanGuard(t) ==
    IF Len(t) >= OrphanGuardWords THEN [t EXCEPT ![Len(t) - 1].nb = TRUE] ELSE t

DraftCue(cw) ==
    [index |-> 0,
     start |-> FormatTime(cw[1].start, MicrosPerMilli),
     end |-> FormatTime(cw[Len(cw)].end, MicrosPerMilli),
     text |-> OrphanGuard([j \in 1..Len(cw) |-> cw[j].word]),
     pad |-> 0]

\* The while loop of resegment_to_sentences; a word that is blank after
\* strip() is skipped before the test for the last word.
RECURSIVE Resegment(_, _, _, _, _)
Resegment(words, i, cur, curLen, entries) ==
    IF i > Len(words) THEN entries
    ELSE IF words[i].word.n = 0
         THEN Resegment(words, i + 1, cur, curLen, entries)
         ELSE LET cw == Append(cur, words[i])
                  cl == curLen + words[i].word.n + 1
                  shouldBreak == \/ words[i].word.p \in SentenceEnders
                                 \/ cl > BreakLen
                                 \/ i = Len(words)
              IN IF shouldBreak
                 THEN Resegment(words, i + 1, <<>>, 0, Append(entries, DraftCue(cw)))
                 ELSE Resegment(words, i + 1, cw, cl, entries)

\* str.lower() on the spellings of the model
LowerSpelling(w) ==
    IF w = "World" THEN "world" ELSE IF w = "Hello" THEN "hello" ELSE w

LowerText(t) == [j \in 1..Len(t) |-> [t[j] EXCEPT !.w = LowerSpelling(t[j].w)]]

\* "a in b" for texts whose words are not parts of one another
Contains(a, b) ==
    \E k \in 0..(Len(b) - Len(a)) :
        \A j \in 1..Len(a) :
            /\ a[j].w = b[k + j].w /\ a[j].n = b[k + j].n /\ a[j].p = b[k + j].p
            /\ (j < Len(a) => a[j].nb = b[k + j].nb)

RECURSIVE SuppressLoop(_, _, _)
SuppressLoop(entries, lastText, clean) ==
    IF entries = <<>> THEN clean
    ELSE LET currentText == LowerText(Head(entries).text)
             fuzzy == /\ TextLen(currentText) > FuzzyMinLen
                      /\ TextLen(lastText) > FuzzyMinLen
                      /\ (Contains(currentText, lastText) \/ Contains(lastText, currentText))
                      /\ Abs(TextLen(currentText) - TextLen(lastText)) < FuzzyMaxDiff
         IN IF currentText = lastText \/ fuzzy
            THEN SuppressLoop(Tail(entries), lastText, clean)
            ELSE SuppressLoop(Tail(entries), currentText, Append(clean, Head(entries)))

suppress_hallucinations(entries) == SuppressLoop(entries, <<>>, <<>>)

resegment_to_sentences(words) ==
    LET draft == suppress_hallucinations(Resegment(words, 1, <<>>, 0, <<>>))
        r == sanitize_entries(draft)
    IN [done |-> TRUE, draft |-> draft, raised |-> r.raised, cues |-> r.cues]

\* Transcriptions of up to MaxTokens words that follow one another in time
Blank == Word("", 0, "")
Period == Word("", 1, ".")

TokenWords ==
    {Word("Hello", 5, ""), Word("world", 5, ""), Period, Blank,
     Word("world", 6, "."), Word("World", 6, "."), Word("hi", 2, ""),
     Word("inter", 14, ".")}

TokenDurations == {50000, 500000}

TokenChoices == {[word |-> w, dur |-> d] : w \in TokenWords, d \in TokenDurations}

RECURSIVE BuildTokens(_, _, _)
BuildTokens(choices, t, acc) ==
    IF choices = <<>> THEN acc
    ELSE BuildTokens(Tail(choices), t + Head(choices).dur,
                     Append(acc, [word |-> Head(choices).word, start |-> t,
                                  end |-> t + Head(choices).dur]))

ResegInputs ==
    {BuildTokens(cs, 0, <<>>) :
        cs \in UNION {[1..m -> TokenChoices] : m \in 0..MaxTokens}}

ResegInit ==
    /\ OrchIdle
    /\ ParseIdle
    /\ SanIdle
    /\ FileIdle
    /\ CheckIdle
    /\ CtxIdle
    /\ BatchIdle
    /\ OrderIdle
    /\ rIn \in ResegInputs
    /\ rOut = NotResegmented

\* The call resegment_to_sentences(rIn, speaker_segments)
ResegStep ==
    /\ ~rOut.done
    /\ rOut' = resegment_to_sentences(rIn)
    /\ UNCHANGED <<orchVars, parseVars, sanVars, fileVars, checkVars, ctxVars,
                   batchVars, orderVars, rIn>>

ResegNext == ResegStep

ResegSpec == ResegInit /\ [][ResegNext]_vars

\* ("Hello", 0.0, 0.5), ("world", 0.5, 1.0), (".", 1.0, 1.05)
HelloWorldWords ==
    <<[word |-> Word("Hello", 5, ""), start |-> 0, end |-> 500000],
      [word |-> Word("world", 5, ""), start |-> 500000, end |-> 1000000],
      [word |-> Period, start |-> 1000000, end |-> 1050000]>>

\* "Hello world."
HelloWorldText == <<Word("Hello", 5, ""), Word("world", 6, ".")>>

\* C16: for the words Hello, world and "." the draft is one cue "Hello world."
\* from 0 to 1050 ms, and the sanitized timeline is that one cue with index 1
\* and the same times.
C16_ShortSentence ==
    (rOut.done /\ rIn = HelloWorldWords) =>
        /\ Len(rOut.draft) = 1
        /\ rOut.draft[1].text = HelloWorldText
        /\ rOut.draft[1].start = 0 /\ rOut.draft[1].end = 1050
        /\ ~rOut.raised
        /\ Len(rOut.cues) = 1
        /\ rOut.cues[1].index = 1
        /\ rOut.cues[1].text = HelloWorldText
        /\ rOut.cues[1].start = 0 /\ rOut.cues[1].end = 1050

\* The draft cues of 846-886, before the hallucination suppression
RawDraft(words) == Resegment(words, 1, <<>>, 0, <<>>)

\* Position of the last cue of the run of equal texts that starts at i
RunLast(es, i) ==
    CHOOSE j \in i..Len(es) :
        /\ \A k \in i..j : es[k].text = es[i].text
        /\ (j < Len(es) => es[j + 1].text # es[i].text)

\* The first cue of every run of consecutive cues with the same text, its
\* end set to the end of the last cue of the run
CollapseRuns(es) ==
    LET firsts == SortedSeq({i \in 1..Len(es) : i = 1 \/ es[i].text # es[i - 1].text})
    IN [k \in 1..Len(firsts) |->
           [es[firsts[k]] EXCEPT !.end = es[RunLast(es, firsts[k])].end]]

\* C26: the Sanitizer keeps the first cue of every run of consecutive cues
\* with the same text, with the end of the last cue of the run, and keeps
\* every cue that differs from its predecessor; the draft cues that the
\* Resegmenter hands on are collapsed in the same way.
C26_DuplicateCollapse ==
    /\ sOut.done => SanDeduped(sIn) = CollapseRuns(SanTimed(sIn))
    /\ rOut.done =>
          /\ rOut.draft = CollapseRuns(RawDraft(rIn))
          /\ SanDeduped(rOut.draft) = CollapseRuns(SanTimed(rOut.draft))

\* The spelling of a word, without the marks of the layout
Spelling(w) == <<w.w, w.n, w.p>>

\* The words of a cue sequence, in the order of the cues
RECURSIVE CueWords(_)
CueWords(cues) ==
    IF cues = <<>> THEN <<>>
    ELSE [j \in 1..Len(Head(cues).text) |-> Spelling(Head(cues).text[j])]
             \o CueWords(Tail(cues))

IsSpoken(tok) == tok.word.n > 0

\* The words of a transcription that are not empty after trimming
SpokenWords(words) ==
    LET kept == SelectSeq(words, IsSpoken)
    IN [j \in 1..Len(kept) |-> Spelling(kept[j].word)]

\* C28: the Resegmenter returns without error, and the words of its cues are
\* the non-empty words of the transcription, each once and in input order;
\* an empty transcription gives no cue.
C28_WordConservation ==
    rOut.done =>
        /\ ~rOut.raised
        /\ CueWords(rOut.cues) = SpokenWords(rIn)

----
\* _ingest_partial_srt and validate_srt on a target SRT.  A text of the file
\* is [id, len, tgt]: its identity as a string, its number of characters and
\* whether it has a character in the range of the target language.

MinFileBytes == 50
HallucinationLen == 10
HallucinationCount == 5
HallucinationPercent == 5
IntegrityPercent == 98
DiversityMin == 50
DiversityPercent == 5
BomBytes == 3
TimeLineBytes == 29
LongLen == 20
ShortLen == 3

\* Bounds of the file contents
MaxEmpty == 1
MaxLatin == 2

FileText(id, len, tgt) == [id |-> id, len |-> len, tgt |-> tgt]
EmptyText == FileText(0, 0, FALSE)
SourceText(i) == FileText(i, LongLen, FALSE)
TranslationOf(i) == FileText(1000 + i, LongLen, TRUE)
LatinOf(i) == FileText(2000 + i, LongLen, FALSE)

\* Texts that a stuck backend repeats
RepeatedTexts ==
    {FileText(9001, LongLen, TRUE), FileText(9002, ShortLen, TRUE),
     FileText(9003, LongLen, FALSE)}

\* has_target_language_chars
TextHasTargetChars(t, lang) ==
    /\ t.len > 0
    /\ (HasCharRange(lang) => t.tgt)

Occurrences(entries, t) == Cardinality({j \in 1..Len(entries) : entries[j].text = t})

\* "len(t) > 10 and c > max(5, len(partial_entries) * 0.05)"
Hallucinated(entries, t) ==
    /\ t.len > HallucinationLen
    /\ Occurrences(entries, t) > HallucinationCount
    /\ 100 * Occurrences(entries, t) > HallucinationPercent * Len(entries)

\* is_translated for the text found under the index of a source entry
Recoverable(entries, t, src, lang) ==
    IF lang = "fa"
    THEN ~Hallucinated(entries, t) /\ TextHasTargetChars(t, lang)
    ELSE ~Hallucinated(entries, t) /\ t # src /\ t.len > 0

\* _ingest_partial_srt: the source positions whose file text is reused
ingest_partial_srt(in) ==
    IF ~in.exists THEN {}
    ELSE {i \in 1..in.expected :
            /\ \E j \in 1..Len(in.entries) : in.entries[j].index = i
            /\ LET j == CHOOSE k \in 1..Len(in.entries) :
                           /\ in.entries[k].index = i
                           /\ \A l \in (k + 1)..Len(in.entries) : in.entries[l].index # i
                   t == in.entries[j].text
               IN t.len > 0 /\ Recoverable(in.entries, t, SourceText(i), in.lang)}

\* Bytes of one text: two for a character of a non-Latin script
TextBytes(t) == IF t.tgt THEN 2 * t.len ELSE t.len

Digits(i) == IF i < 10 THEN 1 ELSE IF i < 100 THEN 2 ELSE 3

\* Bytes of "{idx}\n{start} --> {end}\n{text}\n\n"
EntryBytes(e) == Digits(e.index) + 1 + TimeLineBytes + 1 + TextBytes(e.text) + 2

\* Sum over the entries, taken size by size
RECURSIVE SumBySize(_, _)
SumBySize(entries, sizes) ==
    IF sizes = {} THEN 0
    ELSE LET b == CHOOSE x \in sizes : TRUE
         IN b * Cardinality({j \in 1..Len(entries) : EntryBytes(entries[j]) = b})
                + SumBySize(entries, sizes \ {b})

\* os.path.getsize: the byte order mark of utf-8-sig and the entries
FileBytes(entries) ==
    BomBytes + SumBySize(entries, {EntryBytes(entries[j]) : j \in 1..Len(entries)})

NonEmpty(entries) == {j \in 1..Len(entries) : entries[j].text.len > 0}

MaxRepeat(entries) ==
    LET cnt == {Occurrences(entries, entries[j].text) : j \in NonEmpty(entries)}
    IN CHOOSE c \in cnt : \A d \in cnt : d <= c

\* validate_srt
validate_srt(in) ==
    /\ in.exists
    /\ FileBytes(in.entries) >= MinFileBytes
    /\ Len(in.entries) = in.expected
    /\ NonEmpty(in.entries) # {}
    /\ (in.lang = "fa" =>
          100 * Cardinality({j \in NonEmpty(in.entries) : in.entries[j].text.tgt})
              >= IntegrityPercent * Len(in.entries))
    /\ (Cardinality(NonEmpty(in.entries)) > DiversityMin =>
          100 * MaxRepeat(in.entries)
              <= DiversityPercent * Cardinality(NonEmpty(in.entries)))

\* Target files of an earlier run: empty texts, Latin texts, texts equal to
\* the source, copies of one repeated text, and translations, in that order
FileLangs == {"fa", "ru", "de"}
FileSizes == {1, 3, 50, 51, 120}
RepeatCounts == {0, 3, 6, 7}

FileShapes ==
    [expected : FileSizes, drop : 0..1, empty : 0..MaxEmpty, latin : 0..MaxLatin,
     same : 0..1, rep : RepeatCounts, text : RepeatedTexts]

BuildFile(sh) ==
    [j \in 1..(sh.expected - sh.drop) |->
        [index |-> j,
         text |-> IF j <= sh.empty THEN EmptyText
                  ELSE IF j <= sh.empty + sh.latin THEN LatinOf(j)
                  ELSE IF j <= sh.empty + sh.latin + sh.same THEN SourceText(j)
                  ELSE IF j <= sh.empty + sh.latin + sh.same + sh.rep THEN sh.text
                  ELSE TranslationOf(j)]]

FileInputs ==
    {[lang |-> l, expected |-> sh.expected, exists |-> TRUE, entries |-> BuildFile(sh)] :
        l \in FileLangs, sh \in FileShapes}
    \cup {[lang |-> l, expected |-> n, exists |-> FALSE, entries |-> <<>>] :
        l \in FileLangs, n \in FileSizes}

FileInit ==
    /\ OrchIdle
    /\ ParseIdle
    /\ SanIdle
    /\ ResegIdle
    /\ CheckIdle
    /\ CtxIdle
    /\ BatchIdle
    /\ OrderIdle
    /\ fIn \in FileInputs
    /\ fOut = NotRead

\* The call _ingest_partial_srt(src_entries, out_srt, target_lang)
IngestStep ==
    /\ ~fOut.ingested
    /\ fOut' = [fOut EXCEPT !.ingested = TRUE, !.recovered = ingest_partial_srt(fIn)]
    /\ UNCHANGED <<orchVars, parseVars, sanVars, resegVars, checkVars, ctxVars,
                   batchVars, orderVars, fIn>>

\* The call validate_srt(out_srt, len(src_entries), target_lang)
ValidateStep ==
    /\ ~fOut.validated
    /\ fOut' = [fOut EXCEPT !.validated = TRUE, !.valid = validate_srt(fIn)]
    /\ UNCHANGED <<orchVars, parseVars, sanVars, resegVars, checkVars, ctxVars,
                   batchVars, orderVars, fIn>>

FileNext == IngestStep \/ ValidateStep

FileSpec == FileInit /\ [][FileNext]_vars

\* C17: a reused entry has a non-empty text that differs from the source text
\* of its index, occurs at most max(5, 5% of the entries) times in the file and,
\* when the target language has a character range, has a character in it.
C17_RecoveryClassification ==
    fOut.ingested =>
        \A i \in fOut.recovered :
            LET t == fIn.entries[i].text
                c == Occurrences(fIn.entries, t)
            IN /\ t.len > 0
               /\ t # SourceText(i)
               /\ ~(c > HallucinationCount /\ 100 * c > HallucinationPercent * Len(fIn.entries))
               /\ (HasCharRange(fIn.lang) => t.tgt)

\* C18: for a target language with a character range, a file with the expected
\* number of cues passes validate_srt only if at least 98% of its non-empty
\* cues have a character of the target script.
C18_ScriptRatio ==
    (fOut.validated /\ fOut.valid /\ HasCharRange(fIn.lang)) =>
        100 * Cardinality({j \in NonEmpty(fIn.entries) : fIn.entries[j].text.tgt})
            >= IntegrityPercent * Cardinality(NonEmpty(fIn.entries))

\* C19: validate_srt fails when the number of cues differs from the expected
\* number; for more than 50 entries it fails when one text accounts for more
\* than 5% of all cues; the repetition of a text does not make a file of 50
\* entries or fewer fail.
C19_ParityAndDiversity ==
    fOut.validated =>
        /\ Len(fIn.entries) # fIn.expected => ~fOut.valid
        /\ (/\ Len(fIn.entries) > DiversityMin
            /\ NonEmpty(fIn.entries) # {}
            /\ 100 * MaxRepeat(fIn.entries) > DiversityPercent * Len(fIn.entries))
               => ~fOut.valid
        /\ (/\ Len(fIn.entries) <= DiversityMin
            /\ validate_srt([fIn EXCEPT !.entries =
                    [j \in 1..Len(fIn.entries) |->
                        [fIn.entries[j] EXCEPT !.text =
                            IF fIn.entries[j].text \in RepeatedTexts
                            THEN FileText(1000 + j, @.len, @.tgt) ELSE @]]]))
               => fOut.valid

----
\* The per-cue check of the post-translation loop (run_workflow 2316-2356).
\* A text of the target file is
\*   [empty, same, tgt, paren, rlm]
\* same:  apart from direction marks it is the source text of its index
\* tgt:   it has a character in the range of the target language
\* paren: "plain" for a term like (API), "anchored" for one that
\*        fix_persian_text has wrapped in direction marks, "none"
\* rlm:   it starts and ends with U+200F

\* Bound of the checked files
MaxCheckCues == 2

CheckTexts ==
    {[empty |-> TRUE, same |-> FALSE, tgt |-> FALSE, paren |-> "none", rlm |-> FALSE]}
    \cup {t \in [empty : {FALSE}, same : BOOLEAN, tgt : BOOLEAN,
                 paren : {"none", "plain", "anchored"}, rlm : BOOLEAN] :
            /\ t.same => ~t.tgt
            /\ t.paren = "anchored" => t.rlm}

\* fix_persian_text: an empty text is returned as it is; a parenthesized term
\* is wrapped in RLM and LRM, and the text is anchored with RLM at both ends.
fix_persian_text(t) ==
    IF t.empty THEN t
    ELSE [t EXCEPT !.paren = IF @ = "plain" THEN "anchored" ELSE @, !.rlm = TRUE]

\* re.search(r'\([A-Za-z0-9\s\-]+\)', text): the marks inside an anchored
\* term are not in the character class
HasParentheticalEnglish(t) == t.paren = "plain"

\* "text == src_entries[i]['text'].strip()": strip() leaves direction marks,
\* and the source text carries none
IdenticalToSource(t) == t.same /\ ~t.rlm /\ t.paren # "anchored"

\* The body of "for i, entry in enumerate(tgt_entries)"
IsUntranslated(t, lang) ==
    IF t.empty THEN TRUE
    ELSE IF HasCharRange(lang) THEN ~t.tgt /\ ~HasParentheticalEnglish(t)
    ELSE IdenticalToSource(t)

CheckInputs ==
    [lang : FileLangs, texts : UNION {[1..m -> CheckTexts] : m \in 1..MaxCheckCues}]

CheckInit ==
    /\ OrchIdle
    /\ ParseIdle
    /\ SanIdle
    /\ ResegIdle
    /\ FileIdle
    /\ CtxIdle
    /\ BatchIdle
    /\ OrderIdle
    /\ cIn \in CheckInputs
    /\ cOut = NotChecked

\* One pass of 2316-2356: the texts are fixed and written back, then checked
CheckStep ==
    /\ ~cOut.done
    /\ LET fixed == [i \in 1..Len(cIn.texts) |-> fix_persian_text(cIn.texts[i])]
       IN cOut' = [done |-> TRUE, fixed |-> fixed,
                   indices |-> {i \in 1..Len(fixed) : IsUntranslated(fixed[i], cIn.lang)}]
    /\ UNCHANGED <<orchVars, parseVars, sanVars, resegVars, fileVars, ctxVars,
                   batchVars, orderVars, cIn>>

CheckNext == CheckStep

CheckSpec == CheckInit /\ [][CheckNext]_vars

\* The per-cue check as the claim words it, on a cue of the target file
FailsCheck(t, lang) ==
    \/ t.empty
    \/ (HasCharRange(lang) /\ ~t.tgt /\ t.paren = "none")
    \/ (~HasCharRange(lang) /\ IdenticalToSource(t))

\* C20: the indices handed to the contextual retry are exactly those of the
\* cues that are empty, or (target with a character range) have neither a
\* target-script character nor a parenthesized term, or (Latin target) are
\* identical to the source text of their index.
C20_OffendingIndices ==
    cOut.done =>
        cOut.indices = {i \in 1..Len(cIn.texts) : FailsCheck(cIn.texts[i], cIn.lang)}

----
\* One round of the contextual retry of the post-translation loop
\* (run_workflow 2423-2462) with translate_single_with_context.
\* Positions are 1-based here: position i is index i - 1 of the code.
\* A text is [line, from, rlm]: the line it belongs to, where it comes from
\* ("source", "file", "retry", or "blank" for a text that is empty after
\* strip()), and whether fix_persian_text has anchored it with U+200F.

ContextWindow == 3

\* Bounds of the retried files
MaxCtxCues == 7
MaxOffending == 2

Line(i, from, rlm) == [line |-> i, from |-> from, rlm |-> rlm]
BlankLine == Line(0, "blank", FALSE)
NoAnswer == Line(0, "none", FALSE)

\* src_entries[i]['text']
SourceLine(in, i) == IF i = in.blank THEN BlankLine ELSE Line(i, "source", FALSE)

\* A window that reaches one line further back
PrevStartWide(idx) == Max(1, idx - ContextWindow - 1)

\* "max(0, idx-3)"
PrevStart(idx) == Max(1, idx - ContextWindow)

\* "min(len(src_entries), idx+4)", as the last position of the range
NextEnd(idx, n) == Min(n, idx + ContextWindow)

\* [src_entries[i]['text'] for i in range(max(0, idx-3), idx)]
PrevLines(in, idx) ==
    [j \in 1..(idx - PrevStart(idx)) |-> SourceLine(in, PrevStart(idx) + j - 1)]

\* [src_entries[i]['text'] for i in range(idx+1, min(len(src_entries), idx+4))]
NextLines(in, idx) ==
    [j \in 1..(NextEnd(idx, Len(in.entries)) - idx) |-> SourceLine(in, idx + j)]

\* translate_single_with_context: a blank text is returned without a
\* request; an exception gives None; the answer is stripped and, for 'fa',
\* passed through fix_persian_text when it is not empty.
translate_single_with_context(text, prev, next, lang, answer) ==
    IF text.from = "blank" THEN [sent |-> FALSE, val |-> text]
    ELSE [sent |-> TRUE,
          val |-> CASE answer = "None" -> NoAnswer
                    [] answer = "B" -> BlankLine
                    [] OTHER -> Line(text.line, "retry", lang = "fa")]

\* "if new_translation and new_translation.strip()"
Usable(val) == val.from \notin {"none", "blank"}

\* The loops of 2433-2457: one call per offending position in ascending
\* order, then the splice into tgt_entries, which 2460-2462 write to the file.
RetryRound(in) ==
    LET order == SortedSeq(in.bad)
        call(idx) == translate_single_with_context(
                         SourceLine(in, idx), PrevLines(in, idx), NextLines(in, idx),
                         in.lang, in.answers[idx])
        asked == SelectSeq(order, LAMBDA idx : call(idx).sent)
    IN [done |-> TRUE,
        requests |-> [k \in 1..Len(asked) |->
                         [idx |-> asked[k],
                          text |-> SourceLine(in, asked[k]),
                          prev |-> PrevLines(in, asked[k]),
                          next |-> NextLines(in, asked[k])]],
        entries |-> [i \in 1..Len(in.entries) |->
                        IF i \in in.bad /\ Usable(call(i).val)
                        THEN [in.entries[i] EXCEPT !.text = call(i).val]
                        ELSE in.entries[i]]]

\* tgt_entries after 2316-2318: the cues of the locked timeline; an offending
\* cue holds a blank text or an anchored copy of some text
CtxEntries(n, bad, tgtBlank) ==
    [i \in 1..n |->
        [start |-> (i - 1) * 2000, end |-> (i - 1) * 2000 + 1500,
         text |-> IF i \in bad /\ tgtBlank THEN BlankLine ELSE Line(i, "file", TRUE)]]

CtxAnswers == {"T", "B", "None"}

CtxInit ==
    /\ OrchIdle
    /\ ParseIdle
    /\ SanIdle
    /\ ResegIdle
    /\ FileIdle
    /\ CheckIdle
    /\ BatchIdle
    /\ OrderIdle
    /\ \E n \in 1..MaxCtxCues :
          \E bad \in {B \in SUBSET (1..n) : B # {} /\ Cardinality(B) <= MaxOffending} :
             \E l \in Langs, tb \in BOOLEAN, a \in [bad -> CtxAnswers], b \in 0..n :
                xIn = [lang |-> l, entries |-> CtxEntries(n, bad, tb), bad |-> bad,
                       answers |-> a, blank |-> b]
    /\ xOut = NotRetried

\* The user answers "y": one round of 2423-2462
CtxStep ==
    /\ ~xOut.done
    /\ xOut' = RetryRound(xIn)
    /\ UNCHANGED <<orchVars, parseVars, sanVars, resegVars, fileVars, checkVars,
                   batchVars, orderVars, xIn>>

CtxNext == CtxStep

CtxSpec == CtxInit /\ [][CtxNext]_vars

\* C21: one round sends only offending positions, each at most once and one
\* line per request, with the up to 3 source lines before and the up to 3
\* source lines after it as context; afterwards the cue count, every start
\* and end and the text of every other cue are as before, and an offending
\* cue whose retry failed or came back blank has kept its text.
C21_ContextualRetryFrame ==
    xOut.done =>
        LET n == Len(xIn.entries)
            rq == xOut.requests
        IN /\ \A k \in 1..Len(rq) :
                  /\ rq[k].idx \in xIn.bad
                  /\ \A m \in 1..Len(rq) : rq[m].idx = rq[k].idx => m = k
                  /\ rq[k].text = SourceLine(xIn, rq[k].idx)
                  /\ Len(rq[k].prev) = Min(ContextWindow, rq[k].idx - 1)
                  /\ Len(rq[k].next) = Min(ContextWindow, n - rq[k].idx)
                  /\ \A j \in 1..Len(rq[k].prev) :
                        rq[k].prev[j] = SourceLine(xIn, rq[k].idx - Len(rq[k].prev) + j - 1)
                  /\ \A j \in 1..Len(rq[k].next) :
                        rq[k].next[j] = SourceLine(xIn, rq[k].idx + j)
           /\ Len(xOut.entries) = n
           /\ \A i \in 1..n :
                  /\ xOut.entries[i].start = xIn.entries[i].start
                  /\ xOut.entries[i].end = xIn.entries[i].end
                  /\ i \notin xIn.bad => xOut.entries[i].text = xIn.entries[i].text
                  /\ (i \in xIn.bad /\ xIn.answers[i] \in {"B", "None"})
                        => xOut.entries[i].text = xIn.entries[i].text

\* A round with a request that carries 3 lines before and 3 lines after,
\* one retried cue replaced and one whose retry failed
C21_Witness ==
    /\ xOut.done
    /\ \E k \in 1..Len(xOut.requests) :
          Len(xOut.requests[k].prev) = 3 /\ Len(xOut.requests[k].next) = 3
    /\ \E i \in xIn.bad : xOut.entries[i].text # xIn.entries[i].text
    /\ \E i \in xIn.bad : xIn.answers[i] = "None"

----
\* _create_balanced_batches applied to the queued indices of a timeline.
\* The texts are cue texts of the sanitized source timeline, which are far
\* shorter than the character budget (60 against 5000 characters).

\* Bounds of the batched timelines
MaxBatchCues == 4
MaxBatchTextLen == 3

RECURSIVE Flatten(_)
Flatten(bs) == IF bs = <<>> THEN <<>> ELSE Head(bs) \o Flatten(Tail(bs))

RECURSIVE BatchChars(_, _)
BatchChars(b, lens) == IF b = <<>> THEN 0 ELSE lens[Head(b)] + BatchChars(Tail(b), lens)

\* Batches cut by the item count alone
BatchesByCount(in) ==
    BalancedBatches(in.indices, in.lens, in.maxSize,
                    BatchChars(in.indices, in.lens), <<>>, 0, <<>>)

\* self._create_balanced_batches(indices_to_translate, texts, batch_size)
create_balanced_batches(in) ==
    CreateBalancedBatches(in.indices, in.lens, in.maxSize)

BatchInit ==
    /\ OrchIdle
    /\ ParseIdle
    /\ SanIdle
    /\ ResegIdle
    /\ FileIdle
    /\ CheckIdle
    /\ CtxIdle
    /\ OrderIdle
    /\ \E n \in 1..MaxBatchCues :
          \E todo \in SUBSET (1..n) \ {{}}, lens \in [1..n -> 0..MaxBatchTextLen],
             size \in BaseBatchSize..(BaseBatchSize + 2) :
                bIn = [indices |-> SortedSeq(todo), lens |-> lens, maxSize |-> size]
    /\ bOut = NotBatched

\* The call of 1334, 1539 and 1664
BatchStep ==
    /\ ~bOut.done
    /\ bOut' = [done |-> TRUE, batches |-> create_balanced_batches(bIn)]
    /\ UNCHANGED <<orchVars, parseVars, sanVars, resegVars, fileVars, checkVars,
                   ctxVars, orderVars, bIn>>

BatchNext == BatchStep

BatchSpec == BatchInit /\ [][BatchNext]_vars

----
\* The batch loop of translate_with_deepseek (1321-1405) with a fixed,
\* accepted answer for every batch.  The loop of 1338 takes the batches in
\* list order; CompleteBatch takes any batch that is not completed yet, which
\* gives every order of completion.

\* Bound of the timelines
MaxOrderCues == 4

\* Length of every source text here: two texts fill BatchCharBudget
OrderTextLen == 2

\* final_result after the prefill of 1321-1326
Prefill(in) ==
    [i \in 1..in.n |-> IF i \in in.recovered THEN Txt("T", in.lang = "fa") ELSE NoneV]

\* batch_indices_list of 1329-1334
OrderBatches(in) ==
    CreateBalancedBatches(SortedSeq((1..in.n) \ in.recovered),
                          [i \in 1..in.n |-> OrderTextLen], in.maxSize)

\* result_batch of 1362-1383 for the fixed answer to one batch
BatchAnswer(in, batch) ==
    [j \in 1..Len(batch) |-> ProcessItem(in.answers[batch[j]], in.lang)]

\* A fill that addresses final_result by the position inside the batch
FillByPosition(fr, batch, trans) ==
    [i \in DOMAIN fr |-> IF i <= Len(batch) THEN trans[i] ELSE fr[i]]

\* "abs_idx = batch_indices[rel_idx]; final_result[abs_idx] = trans"
FillResult(fr, batch, trans) ==
    [i \in DOMAIN fr |->
        IF \E j \in 1..Len(batch) : batch[j] = i
        THEN trans[CHOOSE j \in 1..Len(batch) : batch[j] = i]
        ELSE fr[i]]

\* The texts written by the live save of 1392-1398
SavedTexts(fr) == [i \in DOMAIN fr |-> IF fr[i] = NoneV THEN SrcT ELSE fr[i]]

OrderInit ==
    /\ OrchIdle
    /\ ParseIdle
    /\ SanIdle
    /\ ResegIdle
    /\ FileIdle
    /\ CheckIdle
    /\ CtxIdle
    /\ BatchIdle
    /\ \E l \in Langs, n \in 1..MaxOrderCues, size \in BaseBatchSize..(BaseBatchSize + 1) :
          \E rec \in (SUBSET (1..n)) \ {1..n} :
             \E a \in [(1..n) \ rec -> {"T", "L", "None"}] :
                oIn = [lang |-> l, n |-> n, recovered |-> rec, maxSize |-> size,
                       answers |-> a]
    /\ oOut = [order |-> <<>>, result |-> Prefill(oIn), file |-> <<>>]

\* One batch is accepted: 1386-1398
CompleteBatch(k) ==
    /\ k \in 1..Len(OrderBatches(oIn))
    /\ k \notin Range(oOut.order)
    /\ LET batch == OrderBatches(oIn)[k]
           fr == FillResult(oOut.result, batch, BatchAnswer(oIn, batch))
       IN oOut' = [order |-> Append(oOut.order, k), result |-> fr,
                   file |-> SavedTexts(fr)]
    /\ UNCHANGED <<orchVars, parseVars, sanVars, resegVars, fileVars, checkVars,
                   ctxVars, batchVars, oIn>>

OrderNext == \E k \in 1..MaxOrderCues : CompleteBatch(k)

OrderSpec == OrderInit /\ [][OrderNext]_vars

\* final_result when the batches are completed in list order
RECURSIVE InListOrder(_, _, _)
InListOrder(in, k, fr) ==
    IF k > Len(OrderBatches(in)) THEN fr
    ELSE InListOrder(in, k + 1,
                     FillResult(fr, OrderBatches(in)[k],
                                BatchAnswer(in, OrderBatches(in)[k])))

\* C23: no index belongs to two batches, an index outside the completed
\* batches holds what it held before the loop, and once every batch is
\* completed the result and the saved file are those of the list order,
\* whatever the order of completion was.
C23_OrderIndependence ==
    LET bs == OrderBatches(oIn)
        written == UNION {Range(bs[k]) : k \in Range(oOut.order)}
    IN /\ \A j, k \in 1..Len(bs) : j # k => Range(bs[j]) \cap Range(bs[k]) = {}
       /\ \A i \in (1..oIn.n) \ written : oOut.result[i] = Prefill(oIn)[i]
       /\ Len(oOut.order) = Len(bs) =>
             /\ oOut.result = InListOrder(oIn, 1, Prefill(oIn))
             /\ oOut.file = SavedTexts(InListOrder(oIn, 1, Prefill(oIn)))

\* Three or more batches completed with the first batch of the list last,
\* a recovered index and answers that differ between the batches
C23_Witness ==
    /\ Len(oOut.order) >= 3
    /\ Len(oOut.order) = Len(OrderBatches(oIn))
    /\ oOut.order[Len(oOut.order)] = 1
    /\ oIn.recovered # {}
    /\ \E i, j \in (1..oIn.n) \ oIn.recovered : oOut.result[i] # oOut.result[j]

====
